---------------------------- MODULE Spec2Model ----------------------------
(***************************************************************************)
(* Model of the media-retrieval bot (media_bot.py, mp3_downloader.py).     *)
(*                                                                         *)
(* The bot is a single asyncio process.  Every handler runs as a task and  *)
(* tasks interleave only at `await` points, so one action of this module   *)
(* is the code a task runs from the completion of one awaited call (chat   *)
(* API call, subprocess, admin report) up to the next await or the end of  *)
(* the handler.  The outcome of the awaited call is the action's input.    *)
(*                                                                         *)
(* Sizes are counted in MiB.  None is the empty sequence <<>> and a        *)
(* present value v is <<v>>.                                               *)
(***************************************************************************)
EXTENDS Integers, Sequences, FiniteSets, TLC

\* ------------------------------------------------------------------ bounds
\* Requests (messages) that can be in flight at the same time.
NumReqs == 2
\* File names (1..MaxFiles) a cookie directory may hold.
MaxFiles == 2

\* ------------------------------------------------------- program constants
\* TELEGRAM_SIZE_LIMIT_BYTES = 49 * 1024 * 1024, in MiB.
TELEGRAM_SIZE_LIMIT == 49
\* The Instagram handler's own pre-upload limit, 50 * 1024 * 1024, in MiB.
INSTAGRAM_PRECHECK_LIMIT == 50

Reqs == 1..NumReqs
FileIds == 1..MaxFiles
Rotators == {"ig", "tt"}
None == <<>>
Some(v) == <<v>>

VARIABLES
    cookie_files,          \* [rotator -> sorted list of cookie files]
    cookie_cycle,          \* [rotator -> position of itertools.cycle]
    current_cookie_file,   \* [rotator -> None | Some(file)]
    current_bot_context,   \* _current_bot_context: None | Some(request)
    admin_group,           \* ADMIN_GROUP_ID is configured
    req,                   \* [request -> the locals of its handler task]
    world,                 \* which results the environment may produce
    ncalls,                \* [rotator -> get_next_cookie calls so far] (history)
    last_ytdlp_stderr,     \* _last_ytdlp_stderr
    last_run               \* the run_subprocess call that ended last (history)

vars == <<cookie_files, cookie_cycle, current_cookie_file, current_bot_context,
          admin_group, req, world, ncalls, last_ytdlp_stderr, last_run>>

\* ----------------------------------------------------------------- values
NoError == [kind |-> "None", att |-> 0]
Err(k, a) == [kind |-> k, att |-> a]
\* str(e).startswith("PHOTO_ONLY:")
IsPhotoOnly(e) == e.kind = "PHOTO_ONLY"

\* Sizes a downloaded file may have (MiB): under both limits, between the
\* two limits, above both.
FileSizes == {10, 50, 60}
FileExts == {"mp4", "webm"}
Files == [ext : FileExts, size : FileSizes]

\* What a download invocation that completed left in the workspace.
DownloadEffects == {None} \cup {Some(f) : f \in Files}

\* The workspace after a completed download invocation wrote file e.
WriteFile(files, e) ==
    IF e = None THEN files
    ELSE {f \in files : f.ext # e[1].ext} \cup {e[1]}

\* glob.glob(os.path.join(temp_folder, '*.mp4'))
GlobMp4(files) == {f \in files : f.ext = "mp4"}
\* glob.glob(os.path.join(temp_folder, 'final_video.*'))
GlobFinal(files) == files

RECURSIVE SortedSeq(_)
\* sorted(glob.glob(...)): the files of a directory in ascending name order
SortedSeq(S) ==
    IF S = {} THEN <<>>
    ELSE LET m == CHOOSE x \in S : \A y \in S : x <= y
         IN  <<m>> \o SortedSeq(S \ {m})

\* CookieRotator._load_cookie_files / TikTokCookieRotator._load_cookie_files
LoadCookieFiles(dir) == SortedSeq(dir)

\* The locals of a handler task before it starts.
\* No run_subprocess call has ended yet.
NoRun == [module |-> "media_bot", in_time |-> TRUE, gone |-> FALSE, raised |-> "none",
          kill |-> "not_called", stderr |-> "", before |-> ""]

IdleReq ==
    [ platform    |-> "off",      \* the handler that runs; "msg": handle_message not entered yet
      pc          |-> "idle",
      text        |-> None,       \* update.message.text
      allowed     |-> TRUE,       \* update.effective_chat.id in ALLOWED_GROUP_IDS
      url         |-> None,       \* the URL handle_message passes to the handler
      resolved_url |-> None,      \* TikTok: resolved_url
      ws          |-> FALSE,      \* temp_folder exists
      files       |-> {},         \* files in temp_folder
      attempt     |-> 0,          \* attempts started by try_with_all_cookies_async
      cookie_path |-> None,       \* the rotator loop's local cookie_path
      last_error  |-> NoError,
      exc         |-> NoError,    \* the e of the handler's except block
      rot_exc     |-> NoError,    \* what try_with_all_cookies_async raised (history)
      sent        |-> FALSE,      \* send_video / send_audio returned (history)
      video       |-> None,       \* video_path
      dims        |-> None,       \* width, height, duration handed to send_video
      cmd         |-> <<>>,       \* Strategy A: yt_dlp_download_command of the pending invocation
      chosen      |-> None,       \* chosen_format_str
      catalog     |-> None,       \* video_info['formats'] of the last metadata call
      invoked     |-> <<>>,       \* Strategy C: download invocations started (history)
      check       |-> None,       \* Strategy A: what the last metadata check saw (history)
      info_attempt |-> 0,         \* Strategy C: info_attempt
      plan        |-> <<>>,       \* Strategy C: the combined formats in attempt order
      tier_i      |-> 0,          \* Strategy C: position in the current tier's list
      success     |-> FALSE,
      raised      |-> FALSE,      \* the handler ended by raising
      tried       |-> <<>>,       \* bundles passed to process_func (history)
      failed      |-> <<>>,       \* what process_func raised, per failed attempt (history)
      oversize    |-> FALSE,      \* Strategy C removed a file above the limit (history)
      reports     |-> <<>>,       \* send_error_to_admin calls (history)
      report_lost |-> FALSE,      \* send_document of a report raised (history)
      runs        |-> 0,          \* yt-dlp invocations of the handler that ended so far
      shown       |-> "none",     \* last text written to the status message
      outcome     |-> "none" ]    \* what the strategy returned (history)

\* The whole state as one record, so that the sequential code of a handler
\* can be written as a composition of state transformers.
State ==
    [ req |-> req, cycle |-> cookie_cycle, cur |-> current_cookie_file,
      ctx |-> current_bot_context, ncalls |-> ncalls,
      slot |-> last_ytdlp_stderr, run |-> last_run ]

Apply(s) ==
    /\ req' = s.req
    /\ cookie_cycle' = s.cycle
    /\ current_cookie_file' = s.cur
    /\ current_bot_context' = s.ctx
    /\ ncalls' = s.ncalls
    /\ last_ytdlp_stderr' = s.slot
    /\ last_run' = s.run
    /\ UNCHANGED <<cookie_files, admin_group, world>>

SetReq(s, r, fields) ==
    [s EXCEPT !.req[r] = [k \in DOMAIN @ |-> IF k \in DOMAIN fields THEN fields[k] ELSE @[k]]]

Goto(s, r, label) == [s EXCEPT !.req[r].pc = label]

\* str.strip() on the texts that occur.
Strip(x) == IF x \in {" ", "\n"} THEN "" ELSE x

\* send_error_to_admin appends _last_ytdlp_stderr to the report's file when
\* it is not blank.
AttachedText(slot) == IF Strip(slot) # "" THEN Some(slot) ELSE None

AddReport(s, r, rep) ==
    [s EXCEPT !.req[r].reports = Append(@, rep @@ [attached |-> AttachedText(s.slot)])]

\* A send_error_to_admin call as the history keeps it: who made it, for which
\* attempt, the bundle its text names, the bundle the attempt was given, the
\* error in its detail text and the context object it was handed.
ReportRec(by, att, named, passed, err, ctx) ==
    [by |-> by, att |-> att, named |-> named, passed |-> passed, err |-> err, ctx |-> ctx]

\* ------------------------------------------------- handler exits (finally)
\* shutil.rmtree(temp_folder) and the end of the handler task, whose locals
\* are gone with it (the history fields stay).
Cleanup(s, r) ==
    SetReq(s, r, [ws |-> FALSE, files |-> {}, pc |-> "done",
                  cookie_path |-> None, last_error |-> NoError, exc |-> NoError,
                  video |-> None, dims |-> None, cmd |-> <<>>, chosen |-> None, catalog |-> None,
                  info_attempt |-> 0, plan |-> <<>>, tier_i |-> 0, runs |-> 0])

\* A variant of Finally that removes the workspace after the try statement
\* instead of inside finally: an exception that propagates skips the removal.
FinallySkippedOnRaise(s, r, didRaise) ==
    LET s1 == SetReq(s, r, [raised |-> didRaise])
        s2 == IF s.req[r].platform \in {"ig", "tt"} THEN [s1 EXCEPT !.ctx = None] ELSE s1
    IN  IF didRaise THEN Goto(s2, r, "done")
        ELSE IF s2.req[r].success THEN Goto(s2, r, "fin_del") ELSE Cleanup(s2, r)

\* The finally block of the three link handlers.  process_instagram_link and
\* process_tiktok_link first clear the shared context; all delete the status
\* message on success (an await) and then remove the workspace.
\* didRaise: an exception is propagating through the block.
Finally(s, r, didRaise) ==
    LET s1 == SetReq(s, r, [raised |-> didRaise])
        s2 == IF s.req[r].platform \in {"ig", "tt"} THEN [s1 EXCEPT !.ctx = None] ELSE s1
    IN  IF s2.req[r].success THEN Goto(s2, r, "fin_del") ELSE Cleanup(s2, r)

\* send_error_to_admin called by a link handler, followed by the finally
\* block.  Without ADMIN_GROUP_ID the call returns at once; with it the task
\* awaits send_document.
HandlerReport(s, r, by, err) ==
    LET s1 == AddReport(s, r, ReportRec(by, 0, None, None, err, Some(r)))
    IN  IF admin_group THEN Goto(s1, r, "h_admin") ELSE Finally(s1, r, FALSE)

\* An exception reached the handler's `except Exception as e` block: it awaits
\* status_msg.edit_text(...) before it reports.
HandlerExcept(s, r, e) ==
    SetReq(s, r, [exc |-> e, pc |-> "exc_edit"])

\* --------------------------------------------- process_instagram_link, body
\* What the handler does with the strategy's (video_path, photo_message), up
\* to its next await.
IGAfterStrategy(s, r, video, photo) ==
    IF photo
    THEN SetReq(s, r, [outcome |-> "mismatch", pc |-> "ig_edit_photo"])
    ELSE IF video # None
    THEN IF video[1].size > INSTAGRAM_PRECHECK_LIMIT
         THEN SetReq(s, r, [outcome |-> "video", video |-> video, pc |-> "ig_edit_big"])
         ELSE SetReq(s, r, [outcome |-> "video", video |-> video, pc |-> "meta"])
    ELSE SetReq(s, r, [outcome |-> "failed", pc |-> "edit_fail"])

\* process_tiktok_link: what the handler does with (video_path, error_message).
\* notice is "" when error_message is None.
TTAfterStrategy(s, r, video, notice) ==
    IF notice # ""
    THEN SetReq(s, r, [outcome |-> notice, pc |-> "tt_edit_notice"])
    ELSE IF video # None
    THEN SetReq(s, r, [outcome |-> "video", video |-> video, pc |-> "meta"])
    ELSE SetReq(s, r, [outcome |-> "failed", pc |-> "edit_fail"])

\* ------------------------------------------------------------ the rotators
\* A variant of GetNextCookie over a cycle rebuilt at every call: it always
\* returns the first bundle.
GetNextCookieRestarting(s, rot) ==
    [s EXCEPT !.cur[rot] = Some(cookie_files[rot][1]),
              !.cycle[rot] = 0,
              !.ncalls[rot] = @ + 1]

\* get_next_cookie: next(self.cookie_cycle), kept in current_cookie_file.
GetNextCookie(s, rot) ==
    LET n == Len(cookie_files[rot])
    IN  [s EXCEPT !.cur[rot] = Some(cookie_files[rot][s.cycle[rot] + 1]),
                  !.cycle[rot] = (s.cycle[rot] + 1) % n,
                  !.ncalls[rot] = @ + 1]

\* The try_with_all_cookies_async call returned path to its strategy
\* (download_video_with_yt_dlp_instagram / download_video_with_yt_dlp_tiktok),
\* which hands (path, None) to the handler.
RotatorReturned(s, r, rot, path) ==
    IF rot = "ig" THEN IGAfterStrategy(s, r, Some(path), FALSE)
    ELSE TTAfterStrategy(s, r, Some(path), "")

\* The try_with_all_cookies_async call raised e to its strategy: the Instagram
\* strategy turns PHOTO_ONLY into (None, photo_message) and anything else into
\* (None, None); the TikTok strategy returns (None, None).
RotatorRaised(s, r, rot, e) ==
    LET s1 == SetReq(s, r, [rot_exc |-> e])
    IN  IF rot = "ig" THEN IGAfterStrategy(s1, r, None, IsPhotoOnly(e))
        ELSE TTAfterStrategy(s1, r, None, "")

\* yt_dlp_download_command of process_instagram_with_cookie, argument by
\* argument; the URL, the output template, the bundle's path and the header
\* are written as placeholders.
IGDownloadCommand ==
    << "yt-dlp", "<url>", "--playlist-items", "1",
       "-f", "best[height<=720][ext=mp4]/best[ext=mp4]/best[height<=720]/best",
       "-o", "<temp_folder>/final_video.%(ext)s", "--no-warnings",
       "--cookies", "<cookie_path>", "--add-header", "<User-Agent>" >>

\* yt_dlp_download_command[4] = "best": Python counts from 0, so this is the
\* fifth argument.
PlanB(command) == [command EXCEPT ![4 + 1] = "best"]

\* A variant of TryNext whose process_func goes to its download invocation
\* without the metadata invocation.
TryNextWithoutProbe(s, r, rot) ==
    LET s1 == GetNextCookie(s, rot)
        c  == s1.cur[rot]
    IN  SetReq(s1, r, [attempt |-> s.req[r].attempt + 1,
                       cookie_path |-> c,
                       tried |-> Append(s.req[r].tried, c[1]),
                       cmd |-> IF rot = "ig" THEN IGDownloadCommand ELSE <<>>,
                       pc |-> IF rot = "ig" THEN "ig_dl1" ELSE "tt_dl"])

\* The head of one loop iteration: take the next bundle and call
\* process_func, which runs up to its first subprocess.
TryNext(s, r, rot) ==
    LET s1 == GetNextCookie(s, rot)
        c  == s1.cur[rot]
    IN  SetReq(s1, r, [attempt |-> s.req[r].attempt + 1,
                       cookie_path |-> c,
                       tried |-> Append(s.req[r].tried, c[1]),
                       pc |-> IF rot = "ig" THEN "ig_check" ELSE "tt_list"])

\* raise Exception(f"All ... cookie files failed. Last error: {last_error}")
AllFailed(e) == [kind |-> "AllFailed", att |-> e.att, cause |-> e.kind]

\* A variant of LoopEnd whose loop runs over range(attempts_total - 1).
LoopEndOneShort(s, r, rot) ==
    IF s.req[r].attempt < Len(cookie_files[rot]) - 1
    THEN TryNext(s, r, rot)
    ELSE RotatorRaised(s, r, rot, AllFailed(s.req[r].last_error))

\* The end of one failed iteration: the next one, or the loop is exhausted.
LoopEnd(s, r, rot) ==
    IF s.req[r].attempt < Len(cookie_files[rot])
    THEN TryNext(s, r, rot)
    ELSE RotatorRaised(s, r, rot, AllFailed(s.req[r].last_error))

\* A variant of OnAttemptError without the PHOTO_ONLY branch: every failure
\* is reported and the loop goes on.
OnAttemptErrorNoTerminal(s, r, rot, e) ==
    LET s1 == SetReq(s, r, [last_error |-> e, failed |-> Append(s.req[r].failed, e)])
        me == s.req[r]
    IN  IF s.ctx # None /\ admin_group
        THEN Goto(AddReport(s1, r, ReportRec("rotator", me.attempt, s.cur[rot],
                                             me.cookie_path, e, s.ctx)),
                  r, "rot_admin")
        ELSE LoopEnd(s1, r, rot)

\* process_func raised e: the `except Exception as e` block of the loop.
\* Only CookieRotator (Instagram) knows the terminal PHOTO_ONLY failure.
OnAttemptError(s, r, rot, e) ==
    LET s1 == SetReq(s, r, [last_error |-> e, failed |-> Append(s.req[r].failed, e)])
        me == s.req[r]
    IN  IF rot = "ig" /\ IsPhotoOnly(e)
        THEN RotatorRaised(s1, r, rot, e)
        ELSE IF s.ctx # None /\ admin_group
        THEN Goto(AddReport(s1, r, ReportRec("rotator", me.attempt, s.cur[rot],
                                             me.cookie_path, e, s.ctx)),
                  r, "rot_admin")
        ELSE LoopEnd(s1, r, rot)

\* A variant of TryWithAllCookies whose first attempt starts the download
\* invocation while the metadata invocation has not been run.
TryWithAllCookiesDownloadFirst(s, r, rot) ==
    IF cookie_files[rot] = <<>>
    THEN RotatorRaised(s, r, rot, Err("NoCookieFiles", 0))
    ELSE TryNextWithoutProbe(s, r, rot)

\* A variant of TryWithAllCookies without the check of the pool: over an
\* empty pool the loop body never runs and the function raises the
\* all-failed error past its loop.
TryWithAllCookiesUnguarded(s, r, rot) ==
    IF cookie_files[rot] = <<>>
    THEN RotatorRaised(s, r, rot, AllFailed(s.req[r].last_error))
    ELSE TryNext(s, r, rot)

\* try_with_all_cookies_async from its first line.
TryWithAllCookies(s, r, rot) ==
    IF cookie_files[rot] = <<>>
    THEN RotatorRaised(s, r, rot, Err("NoCookieFiles", 0))
    ELSE TryNext(s, r, rot)

\* ------------------------------------------------- results of awaited calls
\* The environment (chat API, yt-dlp, ffprobe) decides how every awaited call
\* ends.  In a run of the world "all" every result below can occur.  In a run
\* of the world "calm" chat calls return and subprocesses draw from a few
\* results; the specifications with several requests in flight use it.
Calm == world = "calm"

\* A chat API call returns (TRUE) or raises (FALSE).
ChatResults == IF Calm THEN {TRUE} ELSE BOOLEAN

\* What a yt-dlp --dump-json call printed: nothing, text that is no JSON, or
\* a JSON document.  Of the document the model keeps what the code reads.
Durations == {None, Some(0), Some(5)}
NoStdout == [kind |-> "empty", has_video_format |-> FALSE, duration |-> None]
IGStdouts ==
    [kind : {"empty", "garbage"}, has_video_format : {FALSE}, duration : {None}]
    \cup [kind : {"json"}, has_video_format : BOOLEAN, duration : Durations]

\* run_subprocess either raises (the call timed out) or returns
\* (stdout, stderr).  no_formats: stderr contains "No video formats found!".
IGCheckResults ==
    IF Calm
    THEN { [raised |-> TRUE, no_formats |-> FALSE, stdout |-> NoStdout],
           [raised |-> FALSE, no_formats |-> TRUE, stdout |-> NoStdout],
           [raised |-> FALSE, no_formats |-> FALSE,
            stdout |-> [kind |-> "json", has_video_format |-> TRUE, duration |-> Some(5)]] }
    ELSE [raised : {TRUE}, no_formats : {FALSE}, stdout : {NoStdout}]
         \cup [raised : {FALSE}, no_formats : BOOLEAN, stdout : IGStdouts]

DownloadResults ==
    IF Calm
    THEN { [raised |-> TRUE, effect |-> None],
           [raised |-> FALSE, effect |-> None],
           [raised |-> FALSE, effect |-> Some([ext |-> "mp4", size |-> 10])] }
    ELSE [raised : {TRUE}, effect : {None}] \cup [raised : {FALSE}, effect : DownloadEffects]

\* A field of a JSON object as the code meets it: absent, null, or a value.
\* Numbers and strings are kept apart (n..., s...).
nVal(v) == [st |-> "val", v |-> v]
nNull == [st |-> "null", v |-> 0]
nMissing == [st |-> "missing", v |-> 0]
sVal(v) == [st |-> "val", v |-> v]
sNull == [st |-> "null", v |-> ""]
sMissing == [st |-> "missing", v |-> ""]

\* d.get(key): an absent key reads as None.
nGet(x) == IF x.st = "missing" THEN nNull ELSE x
sGet(x) == IF x.st = "missing" THEN sNull ELSE x
\* d.get(key, default)
nGetOr(x, d) == IF x.st = "missing" THEN nVal(d) ELSE x
sGetOr(x, d) == IF x.st = "missing" THEN sVal(d) ELSE x
\* Python truth of a number or None
nTruthy(x) == x.st = "val" /\ x.v # 0
\* x or 0
nOrZero(x) == IF nTruthy(x) THEN x.v ELSE 0

\* A format descriptor of a catalog, with the fields the strategies read.
Fmt(id, v, a, h, tbr, size, approx, ext) ==
    [format_id |-> id, vcodec |-> v, acodec |-> a, height |-> h, tbr |-> tbr,
     filesize |-> size, filesize_approx |-> approx, ext |-> ext]

Combined(id, h, tbr, size, ext) ==
    Fmt(id, sVal("h264"), sVal("aac"), nVal(h), nVal(tbr), nVal(size), nMissing, sVal(ext))

\* The catalogs a TikTok metadata call may return: no format; one format that
\* fits; one too large; 480p/10, 720p/60 and 360p/5 MiB; a video-only format
\* next to a format with no height, no bitrate and an approximate size; a
\* descriptor without codecs next to an audio-only one.
TTCatalogs ==
    { <<>>,
      <<Combined(1, 480, 800, 10, "mp4")>>,
      <<Combined(1, 720, 2000, 60, "mp4")>>,
      <<Combined(1, 480, 800, 10, "mp4"), Combined(2, 720, 2000, 60, "mp4"),
        Combined(3, 360, 500, 5, "mp4")>>,
      <<Fmt(1, sVal("h264"), sVal("none"), nVal(1080), nVal(4000), nVal(20), nMissing, sVal("mp4")),
        Fmt(2, sVal("h264"), sVal("aac"), nNull, nMissing, nNull, nVal(30), sVal("mp4"))>>,
      <<Fmt(1, sMissing, sMissing, nVal(240), nVal(100), nVal(3), nMissing, sVal("mp4")),
        Fmt(2, sVal("none"), sVal("aac"), nMissing, nVal(128), nVal(2), nMissing, sVal("m4a"))>> }

\* f.get('filesize') or f.get('filesize_approx')
KnownSize(f) ==
    IF nTruthy(nGet(f.filesize)) THEN nGet(f.filesize) ELSE nGet(f.filesize_approx)

\* The filter of the candidate_formats loop:
\* f.get('vcodec') != 'none' and f.get('acodec') != 'none', then
\* filesize and filesize < TELEGRAM_SIZE_LIMIT_BYTES.
IsCandidate(f) ==
    /\ sGet(f.vcodec) # sVal("none") /\ sGet(f.acodec) # sVal("none")
    /\ nTruthy(KnownSize(f))
    /\ KnownSize(f).v < TELEGRAM_SIZE_LIMIT

CandidateFormats(formats) == SelectSeq(formats, IsCandidate)

\* key=lambda x: (x.get('height') or 0, x.get('tbr') or 0), compared as tuples
KeyLess(f, g) ==
    \/ nOrZero(nGet(f.height)) < nOrZero(nGet(g.height))
    \/ /\ nOrZero(nGet(f.height)) = nOrZero(nGet(g.height))
       /\ nOrZero(nGet(f.tbr)) < nOrZero(nGet(g.tbr))

\* sorted(candidate_formats, key=..., reverse=True)[0]: the sort is stable, so
\* among the candidates of maximal key the first of the catalog is taken.
BestFormat(cands) ==
    LET i == CHOOSE k \in 1..Len(cands) :
                 /\ \A j \in 1..Len(cands) : ~KeyLess(cands[k], cands[j])
                 /\ \A j \in 1..(k - 1) : KeyLess(cands[j], cands[k])
    IN  cands[i]

NoCatalog == <<>>
TTStdouts ==
    [kind : {"empty", "garbage"}, formats : {NoCatalog}]
    \cup [kind : {"json"}, formats : TTCatalogs]

\* restricted: stderr contains "This post may not be comfortable for some
\* audiences" or "Log in for access".
TTListResults ==
    IF Calm
    THEN { [raised |-> TRUE, restricted |-> FALSE, stdout |-> [kind |-> "empty", formats |-> NoCatalog]],
           [raised |-> FALSE, restricted |-> TRUE, stdout |-> [kind |-> "empty", formats |-> NoCatalog]],
           [raised |-> FALSE, restricted |-> FALSE,
            stdout |-> [kind |-> "json",
                        formats |-> <<Combined(1, 480, 800, 10, "mp4")>>]] }
    ELSE [raised : {TRUE}, restricted : {FALSE}, stdout : {[kind |-> "empty", formats |-> NoCatalog]}]
         \cup [raised : {FALSE}, restricted : BOOLEAN, stdout : TTStdouts]

\* not duration or duration <= 0
NoDuration(d) == d = None \/ d[1] <= 0

\* ------------------------------------------------------- run_subprocess
\* The child of a run_subprocess call: whether communicate() ended within
\* the timeout, what the child wrote to stderr, and whether the child was
\* already gone when process.kill() was called (only in the world "kill").
Child(in_time, gone, stderr) == [in_time |-> in_time, gone |-> gone, stderr |-> stderr]
KillResults == IF world = "kill" THEN BOOLEAN ELSE {FALSE}

\* A variant of run_subprocess that returns empty output when the child is
\* already gone at kill time.
RunSubprocessSwallowsGone(child, slot) ==
    IF child.in_time
    THEN [raised |-> "none", kill |-> "not_called", stderr |-> child.stderr, slot |-> child.stderr]
    ELSE IF child.gone
    THEN [raised |-> "none", kill |-> "ProcessLookupError", stderr |-> "", slot |-> slot]
    ELSE [raised |-> "TimeoutError", kill |-> "killed", stderr |-> "", slot |-> slot]

\* A variant of run_subprocess that clears the slot when the call times out.
RunSubprocessClearsSlot(child, slot) ==
    IF child.in_time
    THEN [raised |-> "none", kill |-> "not_called", stderr |-> child.stderr, slot |-> child.stderr]
    ELSE IF child.gone
    THEN [raised |-> "asyncio.TimeoutError", kill |-> "ProcessLookupError", stderr |-> "", slot |-> ""]
    ELSE [raised |-> "TimeoutError", kill |-> "killed", stderr |-> "", slot |-> ""]

\* run_subprocess of media_bot.py: what it raises, what became of
\* process.kill(), the stderr it returns and the new _last_ytdlp_stderr.
run_subprocess(child, slot) ==
    IF child.in_time
    THEN [raised |-> "none", kill |-> "not_called", stderr |-> child.stderr, slot |-> child.stderr]
    ELSE IF child.gone
    THEN [raised |-> "asyncio.TimeoutError", kill |-> "ProcessLookupError", stderr |-> "", slot |-> slot]
    ELSE [raised |-> "TimeoutError", kill |-> "killed", stderr |-> "", slot |-> slot]

\* MP3Downloader.run_subprocess: the same without the slot.
mp3_run_subprocess(child, slot) ==
    [run_subprocess(child, slot) EXCEPT !.slot = slot]

\* The stderr of a call, as far as the results tell: the marker the caller
\* looks for, the error line of ffprobe, or nothing.
StderrOf(out) ==
    IF "no_formats" \in DOMAIN out /\ out.no_formats THEN "ERROR: No video formats found!"
    ELSE IF "restricted" \in DOMAIN out /\ out.restricted THEN "ERROR: Log in for access"
    ELSE IF "forbidden" \in DOMAIN out /\ out.forbidden THEN "ERROR: HTTP Error 403"
    ELSE IF "probe_failed" \in DOMAIN out /\ out.probe_failed THEN "ffprobe: Invalid data"
    ELSE ""

\* The state once a run_subprocess call of request r has ended: the slot as
\* the call leaves it, and the call in the history.
\* The history keeps of the call: the module whose run_subprocess it was,
\* what the child did, what the call raised, the stderr it returned and, for
\* a call that has no business with the slot (one that timed out, one of
\* mp3_downloader.py), the slot as the call found it.
RunEnded(s, rs, child, module) ==
    [s EXCEPT !.slot = rs.slot,
              !.run = [module |-> module,
                       in_time |-> child.in_time, gone |-> child.gone /\ ~child.in_time,
                       raised |-> rs.raised, kill |-> rs.kill,
                       stderr |-> IF child.in_time THEN child.stderr ELSE "",
                       before |-> IF child.in_time /\ module = "media_bot" THEN "" ELSE s.slot]]
Ran(r, out, gone) ==
    LET child == Child(~out.raised, gone, StderrOf(out))
    IN  RunEnded(State, run_subprocess(child, last_ytdlp_stderr), child, "media_bot")
\* A yt-dlp invocation of request r ended: the request's count of
\* extraction invocations grows by one.  The count is an observation of the
\* model; it is kept where requests are examined one at a time, outside the
\* calm world.
RanYtDlp(r, out, gone) ==
    LET s1 == Ran(r, out, gone)
    IN  IF Calm THEN s1 ELSE SetReq(s1, r, [runs |-> s1.req[r].runs + 1])
RanMP3(r, out, gone) ==
    LET child == Child(~out.raised, gone, StderrOf(out))
    IN  RunEnded(State, mp3_run_subprocess(child, last_ytdlp_stderr), child, "mp3_downloader")

\* ffprobe ended: it raised, or returned with or without an error line.
MetaResults ==
    IF Calm THEN {[raised |-> FALSE, probe_failed |-> FALSE]}
    ELSE [raised : {TRUE}, probe_failed : {FALSE}] \cup [raised : {FALSE}, probe_failed : BOOLEAN]

\* ------------------------------------------------------- handle_message
\* A URL as far as the three patterns tell URLs apart: the scheme, the
\* subdomain written before the site's domain, the site and the kind of path.
Url(scheme, sub, host, path) == [scheme |-> scheme, sub |-> sub, host |-> host, path |-> path]
IGReel == Url("https", "www.", "instagram.com", "reel")
IGPlainHttp == Url("http", "www.", "instagram.com", "p")
TTVideo == Url("https", "www.", "tiktok.com", "video")
TTShortVm == Url("https", "vm.", "tiktok.com", "code")
TTShortVt == Url("http", "vt.", "tiktok.com", "code")
YTShorts == Url("https", "www.", "youtube.com", "shorts")
YTWatch == Url("https", "www.", "youtube.com", "watch")
Urls == {IGReel, IGPlainHttp, TTVideo, TTShortVm, TTShortVt, YTShorts, YTWatch}

\* The texts of a message: the links it holds, in the order they occur.
MaxTextLen == 2
Texts == UNION {[1..n -> Urls] : n \in 0..MaxTextLen}

\* https://www\.instagram\.com/(p|reel)/[a-zA-Z0-9_-]+/?
MatchesInstagram(u) ==
    u.scheme = "https" /\ u.sub = "www." /\ u.host = "instagram.com" /\ u.path \in {"p", "reel"}
\* https?://(?:www\.|vm\.|vt\.)?tiktok\.com/(@[\w\.-]+/video/\d+|[\w-]+)
MatchesTikTok(u) ==
    /\ u.scheme \in {"http", "https"} /\ u.sub \in {"", "www.", "vm.", "vt."}
    /\ u.host = "tiktok.com" /\ u.path \in {"video", "code"}
\* https?://(?:www\.)?youtube\.com/shorts/[a-zA-Z0-9_-]+
MatchesShorts(u) ==
    /\ u.scheme \in {"http", "https"} /\ u.sub \in {"", "www."}
    /\ u.host = "youtube.com" /\ u.path = "shorts"

\* re.search: the leftmost match, or None.
Search(text, hits) ==
    IF hits = {} THEN None
    ELSE Some(text[CHOOSE i \in hits : \A j \in hits : i <= j])
find_instagram_url(text) == Search(text, {i \in 1..Len(text) : MatchesInstagram(text[i])})
find_tiktok_url(text) == Search(text, {i \in 1..Len(text) : MatchesTikTok(text[i])})
find_youtube_shorts_url(text) == Search(text, {i \in 1..Len(text) : MatchesShorts(text[i])})

\* A variant of Dispatch that looks for a TikTok link first.
DispatchTikTokFirst(text) ==
    IF find_tiktok_url(text) # None
    THEN [platform |-> "tt", url |-> find_tiktok_url(text)]
    ELSE IF find_instagram_url(text) # None
    THEN [platform |-> "ig", url |-> find_instagram_url(text)]
    ELSE IF find_youtube_shorts_url(text) # None
    THEN [platform |-> "yt", url |-> find_youtube_shorts_url(text)]
    ELSE [platform |-> "none", url |-> None]

\* The if / elif chain of handle_message: the handler entered and its URL.
Dispatch(text) ==
    IF find_instagram_url(text) # None
    THEN [platform |-> "ig", url |-> find_instagram_url(text)]
    ELSE IF find_tiktok_url(text) # None
    THEN [platform |-> "tt", url |-> find_tiktok_url(text)]
    ELSE IF find_youtube_shorts_url(text) # None
    THEN [platform |-> "yt", url |-> find_youtube_shorts_url(text)]
    ELSE [platform |-> "none", url |-> None]

\* "vm.tiktok.com" in url or "vt.tiktok.com" in url
IsShortLink(u) == u.host = "tiktok.com" /\ u.sub \in {"vm.", "vt."}

\* What requests.head does for a short link: it follows the redirects to
\* the video's page, or raises a requests.RequestException (a timeout is one).
ResolveResults == {"redirected", "request_error"}

\* A variant of resolve_tiktok_url that lets the request error out of the
\* function's result: no URL is returned.
ResolveFailureLosesUrl(u, res) ==
    IF IsShortLink(u) THEN IF res = "redirected" THEN TTVideo ELSE Url("", "", "", "")
    ELSE u

resolve_tiktok_url(u, res) ==
    IF IsShortLink(u) THEN IF res = "redirected" THEN TTVideo ELSE u
    ELSE u


\* ---------------------------------------------------------------- actions
Rot(r) == req[r].platform
At(r, label) == req[r].pc = label
ChatError == Err("ChatError", 0)

\* process_instagram_link up to its first await (send_message).
\* handle_message up to the call of a handler: nothing is done for an update
\* without text or from a chat that is not allowed, or when no pattern
\* matches.  The handler's own code up to its first await is the next step.
HandleMessage(r) ==
    /\ At(r, "idle") /\ req[r].platform = "msg"
    /\ Apply(IF req[r].text = None \/ ~req[r].allowed
             THEN SetReq(State, r, [platform |-> "none", pc |-> "done"])
             ELSE LET d == Dispatch(req[r].text[1])
                  IN  IF d.platform = "none"
                      THEN SetReq(State, r, [platform |-> "none", pc |-> "done"])
                      ELSE SetReq(State, r, [platform |-> d.platform, url |-> d.url]))

IGStart(r) ==
    /\ At(r, "idle") /\ req[r].platform = "ig"
    /\ Apply(Goto([State EXCEPT !.ctx = Some(r)], r, "ig_send"))

\* send_message returned or raised.  It is outside the try block: when it
\* raises, the handler ends at once, before the workspace exists.
IGSendDone(r) ==
    /\ At(r, "ig_send")
    /\ \E ok \in ChatResults :
        Apply(IF ok THEN SetReq(State, r, [ws |-> TRUE, shown |-> "checking", pc |-> "ig_edit0"])
              ELSE SetReq(State, r, [raised |-> TRUE, pc |-> "done"]))

\* status_msg.edit_text("Обрабатываю Instagram пост...") returned or raised;
\* then download_video_with_yt_dlp_instagram runs up to its first subprocess.
IGEdit0Done(r) ==
    /\ At(r, "ig_edit0")
    /\ \E ok \in ChatResults :
        Apply(IF ok THEN TryWithAllCookies(SetReq(State, r, [shown |-> "processing"]), r, "ig")
              ELSE HandlerExcept(State, r, ChatError))

\* What the two checks of an attempt's metadata invocation saw (history):
\* the stderr signal, and whether the metadata shows a video ("unknown" when
\* stdout was no JSON document).
CheckSeen(a, out) ==
    Some([ att |-> a, signal |-> out.no_formats,
           metadata |-> IF out.stdout.kind # "json" THEN "unknown"
                        ELSE IF ~out.stdout.has_video_format /\ NoDuration(out.stdout.duration)
                        THEN "no_video" ELSE "video" ])

\* A variant of IGCheckDone that raises PHOTO_ONLY only when the stderr
\* signal and the metadata both show no video.
IGCheckDoneBothChecks(r) ==
    /\ At(r, "ig_check")
    /\ \E out \in IGCheckResults, gone \in KillResults :
        LET a == req[r].attempt
            s0 == IF out.raised THEN RanYtDlp(r, out, gone)
                  ELSE SetReq(RanYtDlp(r, out, gone), r, [check |-> CheckSeen(a, out)])
        IN  Apply(IF out.raised THEN OnAttemptError(s0, r, "ig", Err("Timeout", a))
                  ELSE IF out.stdout.kind = "empty" THEN OnAttemptError(s0, r, "ig", Err("NoInfo", a))
                  ELSE IF out.stdout.kind = "garbage" THEN OnAttemptError(s0, r, "ig", Err("BadJson", a))
                  ELSE IF /\ out.no_formats
                          /\ ~out.stdout.has_video_format /\ NoDuration(out.stdout.duration)
                       THEN OnAttemptError(s0, r, "ig", Err("PHOTO_ONLY", a))
                  ELSE SetReq(s0, r, [cmd |-> IGDownloadCommand, pc |-> "ig_dl1"]))

\* process_instagram_with_cookie: the metadata invocation ended.
IGCheckDone(r) ==
    /\ At(r, "ig_check")
    /\ \E out \in IGCheckResults, gone \in KillResults :
        LET a == req[r].attempt
            s0 == IF out.raised THEN RanYtDlp(r, out, gone)
                  ELSE SetReq(RanYtDlp(r, out, gone), r, [check |-> CheckSeen(a, out)])
        IN  Apply(IF out.raised THEN OnAttemptError(s0, r, "ig", Err("Timeout", a))
                  ELSE IF out.no_formats THEN OnAttemptError(s0, r, "ig", Err("PHOTO_ONLY", a))
                  ELSE IF out.stdout.kind = "empty" THEN OnAttemptError(s0, r, "ig", Err("NoInfo", a))
                  ELSE IF out.stdout.kind = "garbage" THEN OnAttemptError(s0, r, "ig", Err("BadJson", a))
                  ELSE IF ~out.stdout.has_video_format /\ NoDuration(out.stdout.duration)
                       THEN OnAttemptError(s0, r, "ig", Err("PHOTO_ONLY", a))
                  ELSE SetReq(s0, r, [cmd |-> IGDownloadCommand, pc |-> "ig_dl1"]))

\* A variant of IGAfterDownload that globs 'final_video.*' and so takes a
\* file of another container when there is one.
IGAfterDownloadAnyFile(s, r) ==
    LET found == GlobFinal(s.req[r].files)
    IN  IF found = {} THEN OnAttemptError(s, r, "ig", Err("NotCreated", s.req[r].attempt))
        ELSE RotatorReturned(s, r, "ig", CHOOSE f \in found : f.ext # "mp4" \/ found = GlobMp4(found))

\* process_instagram_with_cookie after a download invocation returned:
\* glob '*.mp4', return the file or raise "Video file not created".
IGAfterDownload(s, r) ==
    LET found == GlobMp4(s.req[r].files)
    IN  IF found = {} THEN OnAttemptError(s, r, "ig", Err("NotCreated", s.req[r].attempt))
        ELSE RotatorReturned(s, r, "ig", CHOOSE f \in found : TRUE)

\* The first download invocation ended; when it raised, plan B starts.
IGDl1Done(r) ==
    /\ At(r, "ig_dl1")
    /\ \E out \in DownloadResults, gone \in KillResults :
        Apply(IF out.raised
              THEN SetReq(RanYtDlp(r, out, gone), r, [cmd |-> PlanB(req[r].cmd), pc |-> "ig_dl2"])
              ELSE IGAfterDownload(SetReq(RanYtDlp(r, out, gone), r, [cmd |-> <<>>,
                                          files |-> WriteFile(req[r].files, out.effect)]), r))

\* The plan B download invocation ended.
IGDl2Done(r) ==
    /\ At(r, "ig_dl2")
    /\ \E out \in DownloadResults, gone \in KillResults :
        Apply(IF out.raised
              THEN OnAttemptError(SetReq(RanYtDlp(r, out, gone), r, [cmd |-> <<>>]), r, "ig",
                                  Err("Timeout", req[r].attempt))
              ELSE IGAfterDownload(SetReq(RanYtDlp(r, out, gone), r, [cmd |-> <<>>,
                                          files |-> WriteFile(req[r].files, out.effect)]), r))

\* A variant of send_error_to_admin without the try statement around
\* send_document: a failure of the call reaches the caller.
SendErrorToAdminPropagates(ok) == IF ok THEN "returned" ELSE "raised"

\* send_error_to_admin once send_document has returned (ok) or raised: the
\* `except Exception` of its try statement logs the failure, and the function
\* returns either way.
send_error_to_admin(ok) == "returned"

\* The history keeps whether a report of the request was lost.
ReportEnded(s, r, ok) == SetReq(s, r, [report_lost |-> s.req[r].report_lost \/ ~ok])

\* The rotator's send_error_to_admin call ended; the loop goes on.  (Were the
\* call to raise, the exception would leave try_with_all_cookies_async.)
RotAdminEnded(s, r, ok) ==
    IF send_error_to_admin(ok) = "returned"
    THEN LoopEnd(ReportEnded(s, r, ok), r, Rot(r))
    ELSE RotatorRaised(ReportEnded(s, r, ok), r, Rot(r), ChatError)

RotAdminDone(r) ==
    /\ At(r, "rot_admin")
    /\ \E ok \in ChatResults : Apply(RotAdminEnded(State, r, ok))

\* A variant of IGEditPhotoDone that treats the photos-only result like a
\* failed download and reports it.
IGEditPhotoDoneReporting(r) ==
    /\ At(r, "ig_edit_photo")
    /\ \E ok \in ChatResults :
        Apply(IF ok THEN HandlerReport(SetReq(State, r, [shown |-> "photo"]), r, "handler_failed", NoError)
              ELSE HandlerExcept(State, r, ChatError))

\* edit_text with the photos-only notice returned or raised.
IGEditPhotoDone(r) ==
    /\ At(r, "ig_edit_photo")
    /\ \E ok \in ChatResults :
        Apply(IF ok THEN Finally(SetReq(State, r, [shown |-> "photo"]), r, FALSE)
              ELSE HandlerExcept(State, r, ChatError))

\* edit_text with the larger-than-50-MB notice returned or raised.
IGEditBigDone(r) ==
    /\ At(r, "ig_edit_big")
    /\ \E ok \in ChatResults :
        Apply(IF ok THEN Finally(SetReq(State, r, [shown |-> "big"]), r, FALSE)
              ELSE HandlerExcept(State, r, ChatError))

\* A variant of get_video_metadata without its try statement: a failed
\* ffprobe call reaches the handler.
GetVideoMetadataRaises(out) ==
    IF out.raised \/ out.probe_failed THEN [raised |-> TRUE, dims |-> None]
    ELSE [raised |-> FALSE, dims |-> Some("probed")]

\* get_video_metadata: a run_subprocess call that raised, or output without
\* a stream entry (json.loads, ['streams'][0] or int() raises), ends in
\* `except Exception`, which returns (None, None, None).
get_video_metadata(out) ==
    IF out.raised \/ out.probe_failed THEN [raised |-> FALSE, dims |-> None]
    ELSE [raised |-> FALSE, dims |-> Some("probed")]

\* get_video_metadata ended; send_video is awaited with what it returned.
MetaDone(r) ==
    /\ At(r, "meta")
    /\ \E out \in MetaResults, gone \in KillResults :
        LET m == get_video_metadata(out)
        IN  Apply(IF m.raised THEN HandlerExcept(Ran(r, out, gone), r, Err("Metadata", 0))
                  ELSE SetReq(Ran(r, out, gone), r, [dims |-> m.dims, pc |-> "send_video"]))

\* send_video returned or raised.
SendVideoDone(r) ==
    /\ At(r, "send_video")
    /\ \E ok \in ChatResults :
        Apply(IF ok THEN SetReq(State, r, [sent |-> TRUE, pc |-> "del_trigger"])
              ELSE HandlerExcept(State, r, ChatError))

\* delete_message(chat_id, msg_id) returned or raised.
DelTriggerDone(r) ==
    /\ At(r, "del_trigger")
    /\ \E ok \in ChatResults :
        Apply(IF ok THEN Finally(SetReq(State, r, [success |-> TRUE]), r, FALSE)
              ELSE HandlerExcept(State, r, ChatError))

\* A variant of EditFailDone whose failure branch ends after the notice.
EditFailDoneSilent(r) ==
    /\ At(r, "edit_fail")
    /\ \E ok \in ChatResults :
        Apply(IF ok THEN Finally(SetReq(State, r, [shown |-> "fail"]), r, FALSE)
              ELSE HandlerExcept(State, r, ChatError))

\* edit_text with the could-not-download notice returned or raised; on
\* return the handler reports to the admin.
EditFailDone(r) ==
    /\ At(r, "edit_fail")
    /\ \E ok \in ChatResults :
        Apply(IF ok THEN HandlerReport(SetReq(State, r, [shown |-> "fail"]), r, "handler_failed", NoError)
              ELSE HandlerExcept(State, r, ChatError))

\* The except block: edit_text with the unexpected-error notice returned or
\* raised.  When it raises, the exception leaves the handler through finally
\* and send_error_to_admin is not reached.
ExcEditDone(r) ==
    /\ At(r, "exc_edit")
    /\ \E ok \in ChatResults :
        Apply(IF ok THEN HandlerReport(SetReq(State, r, [shown |-> "unexpected"]), r, "handler_exc", req[r].exc)
              ELSE Finally(State, r, TRUE))

\* The handler's send_error_to_admin call ended; the handler leaves through
\* finally.  (Were the call to raise, the exception would reach the except
\* block from the try block's call, and leave the handler from the except
\* block's call.)
HandlerAdminEnded(s, r, ok) ==
    LET s1 == ReportEnded(s, r, ok)
        by == s.req[r].reports[Len(s.req[r].reports)].by
    IN  IF send_error_to_admin(ok) = "returned" THEN Finally(s1, r, FALSE)
        ELSE IF by = "handler_failed" THEN HandlerExcept(s1, r, ChatError)
        ELSE Finally(s1, r, TRUE)

HandlerAdminDone(r) ==
    /\ At(r, "h_admin")
    /\ \E ok \in ChatResults : Apply(HandlerAdminEnded(State, r, ok))

\* status_msg.delete() in the finally block returned or raised (ignored).
FinDelDone(r) ==
    /\ At(r, "fin_del")
    /\ Apply(Cleanup(State, r))

\* ------------------------------------------------------ TikTok (Strategy B)
\* process_tiktok_link up to its first await (send_message).
TTStart(r) ==
    /\ At(r, "idle") /\ req[r].platform = "tt"
    /\ Apply(Goto([State EXCEPT !.ctx = Some(r)], r, "tt_send"))

\* send_message returned or raised (outside the try block).  On return the
\* workspace is made, the URL resolved and the unauthenticated metadata
\* invocation of download_video_with_yt_dlp_tiktok started.
TTSendDone(r) ==
    /\ At(r, "tt_send")
    /\ \E ok \in ChatResults, res \in ResolveResults :
        Apply(IF ok THEN SetReq(State, r, [ws |-> TRUE, shown |-> "processing", pc |-> "tt_list0",
                                           resolved_url |-> Some(resolve_tiktok_url(req[r].url[1], res))])
              ELSE SetReq(State, r, [raised |-> TRUE, pc |-> "done"]))

\* download_video_with_yt_dlp_tiktok returns (None, message).
TTNotice(s, r, notice) == TTAfterStrategy(s, r, None, notice)

\* A variant of TTList0Done that goes to the rotator without looking at the
\* pool first.
TTList0DoneNoPoolCheck(r) ==
    /\ At(r, "tt_list0")
    /\ \E out \in TTListResults, gone \in KillResults :
        LET cands == CandidateFormats(out.stdout.formats)
            s0 == SetReq(RanYtDlp(r, out, gone), r, [catalog |-> IF ~out.raised /\ ~out.restricted /\ out.stdout.kind = "json"
                                                THEN Some(out.stdout.formats) ELSE None])
        IN  Apply(IF out.raised THEN TTNotice(s0, r, "download_error")
                  ELSE IF out.restricted
                       THEN TryWithAllCookies(s0, r, "tt")
                  ELSE IF out.stdout.kind # "json" THEN TTNotice(s0, r, "download_error")
                  ELSE IF cands = <<>> THEN TTNotice(s0, r, "no_suitable")
                  ELSE SetReq(s0, r, [chosen |-> Some(BestFormat(cands).format_id),
                                         pc |-> "tt_dl0"]))

\* The unauthenticated metadata invocation ended.
TTList0Done(r) ==
    /\ At(r, "tt_list0")
    /\ \E out \in TTListResults, gone \in KillResults :
        LET cands == CandidateFormats(out.stdout.formats)
            s0 == SetReq(RanYtDlp(r, out, gone), r, [catalog |-> IF ~out.raised /\ ~out.restricted /\ out.stdout.kind = "json"
                                                THEN Some(out.stdout.formats) ELSE None])
        IN  Apply(IF out.raised THEN TTNotice(s0, r, "download_error")
                  ELSE IF out.restricted
                       THEN IF cookie_files["tt"] = <<>>
                            THEN TTNotice(s0, r, "not_configured")
                            ELSE TryWithAllCookies(s0, r, "tt")
                  ELSE IF out.stdout.kind # "json" THEN TTNotice(s0, r, "download_error")
                  ELSE IF cands = <<>> THEN TTNotice(s0, r, "no_suitable")
                  ELSE SetReq(s0, r, [chosen |-> Some(BestFormat(cands).format_id),
                                         pc |-> "tt_dl0"]))

\* A variant of TTDl0Done whose failed download returns (None, None).
TTDl0DoneAsFailure(r) ==
    /\ At(r, "tt_dl0")
    /\ \E out \in DownloadResults, gone \in KillResults :
        LET files == WriteFile(req[r].files, out.effect)
            s1 == SetReq(RanYtDlp(r, out, gone), r, [files |-> files])
        IN  IF out.raised THEN Apply(TTAfterStrategy(RanYtDlp(r, out, gone), r, None, ""))
            ELSE IF GlobFinal(files) = {} THEN Apply(TTAfterStrategy(s1, r, None, ""))
            ELSE \E f \in GlobFinal(files) : Apply(TTAfterStrategy(s1, r, Some(f), ""))

\* The unauthenticated download invocation ended: glob 'final_video.*'.
TTDl0Done(r) ==
    /\ At(r, "tt_dl0")
    /\ \E out \in DownloadResults, gone \in KillResults :
        LET files == WriteFile(req[r].files, out.effect)
            s1 == SetReq(RanYtDlp(r, out, gone), r, [files |-> files])
        IN  IF out.raised THEN Apply(TTNotice(RanYtDlp(r, out, gone), r, "download_error"))
            ELSE IF GlobFinal(files) = {} THEN Apply(TTNotice(s1, r, "not_created"))
            ELSE \E f \in GlobFinal(files) : Apply(TTAfterStrategy(s1, r, Some(f), ""))

\* process_tiktok_with_cookie: the metadata invocation with a bundle ended.
TTListDone(r) ==
    /\ At(r, "tt_list")
    /\ \E out \in TTListResults, gone \in KillResults :
        LET cands == CandidateFormats(out.stdout.formats)
            a == req[r].attempt
            s0 == SetReq(RanYtDlp(r, out, gone), r, [catalog |-> IF ~out.raised /\ ~out.restricted /\ out.stdout.kind = "json"
                                                THEN Some(out.stdout.formats) ELSE None])
        IN  Apply(IF out.raised THEN OnAttemptError(s0, r, "tt", Err("Timeout", a))
                  ELSE IF out.restricted THEN OnAttemptError(s0, r, "tt", Err("Restricted", a))
                  ELSE IF out.stdout.kind = "empty" THEN OnAttemptError(s0, r, "tt", Err("NoInfo", a))
                  ELSE IF out.stdout.kind = "garbage" THEN OnAttemptError(s0, r, "tt", Err("BadJson", a))
                  ELSE IF cands = <<>> THEN OnAttemptError(s0, r, "tt", Err("NoSuitable", a))
                  ELSE SetReq(s0, r, [chosen |-> Some(BestFormat(cands).format_id),
                                         pc |-> "tt_dl"]))

\* process_tiktok_with_cookie: the download invocation ended.
TTDlDone(r) ==
    /\ At(r, "tt_dl")
    /\ \E out \in DownloadResults, gone \in KillResults :
        LET files == WriteFile(req[r].files, out.effect)
            s1 == SetReq(RanYtDlp(r, out, gone), r, [files |-> files])
            a == req[r].attempt
        IN  IF out.raised THEN Apply(OnAttemptError(RanYtDlp(r, out, gone), r, "tt", Err("Timeout", a)))
            ELSE IF GlobFinal(files) = {} THEN Apply(OnAttemptError(s1, r, "tt", Err("NotCreated", a)))
            ELSE \E f \in GlobFinal(files) : Apply(RotatorReturned(s1, r, "tt", f))

\* edit_text with the strategy's error_message returned or raised.
TTEditNoticeDone(r) ==
    /\ At(r, "tt_edit_notice")
    /\ \E ok \in ChatResults :
        Apply(IF ok THEN Finally(SetReq(State, r, [shown |-> req[r].outcome]), r, FALSE)
              ELSE HandlerExcept(State, r, ChatError))

\* ---------------------------------------------- YouTube Shorts (Strategy C)
\* The catalogs a YouTube metadata call may return: no format; 480p and 720p
\* mp4 that fit; a 1080p declared too large, then 360p webm and mp4 of unknown
\* size; only separate video and audio streams; a combined format whose
\* height is null; two 720p mp4 of different bitrate (one spelt "MP4") and a
\* 1080p webm; a descriptor whose codecs are null next to one without codec
\* keys.
YTCatalogs ==
    { <<>>,
      <<Combined(1, 480, 800, 10, "mp4"), Combined(2, 720, 2000, 20, "mp4")>>,
      <<Combined(1, 1080, 4000, 60, "mp4"),
        Fmt(2, sVal("vp9"), sVal("opus"), nVal(360), nVal(600), nNull, nMissing, sVal("webm")),
        Fmt(3, sVal("h264"), sVal("aac"), nVal(360), nVal(500), nMissing, nMissing, sVal("mp4"))>>,
      <<Fmt(1, sVal("h264"), sVal("none"), nVal(1080), nVal(4000), nVal(20), nMissing, sVal("mp4")),
        Fmt(2, sVal("none"), sVal("aac"), nMissing, nVal(128), nVal(2), nMissing, sVal("m4a"))>>,
      <<Fmt(1, sVal("h264"), sVal("aac"), nNull, nVal(800), nVal(10), nMissing, sVal("mp4"))>>,
      <<Combined(1, 720, 1000, 10, "MP4"), Combined(2, 720, 3000, 30, "mp4"),
        Combined(3, 1080, 3000, 30, "webm")>>,
      <<Fmt(1, sNull, sNull, nVal(360), nVal(500), nVal(10), nMissing, sVal("mp4")),
        Fmt(2, sMissing, sMissing, nVal(480), nVal(800), nVal(10), nMissing, sVal("mp4"))>> }

YTStdouts ==
    [kind : {"empty", "garbage"}, formats : {NoCatalog}]
    \cup [kind : {"json"}, formats : YTCatalogs]

YTInfoResults ==
    IF Calm
    THEN { [raised |-> TRUE, stdout |-> [kind |-> "empty", formats |-> NoCatalog]],
           [raised |-> FALSE,
            stdout |-> [kind |-> "json", formats |-> <<Combined(1, 480, 800, 10, "mp4")>>]] }
    ELSE [raised : {TRUE}, stdout : {[kind |-> "empty", formats |-> NoCatalog]}]
         \cup [raised : {FALSE}, stdout : YTStdouts]

\* A download invocation of Strategy C: it raised (run into the timeout, with
\* whatever it had written so far) or returned; forbidden: stderr contains
\* "HTTP Error 403".
YTDownloadResults ==
    IF Calm
    THEN { [raised |-> TRUE, forbidden |-> FALSE, effect |-> None],
           [raised |-> FALSE, forbidden |-> FALSE, effect |-> None],
           [raised |-> FALSE, forbidden |-> FALSE, effect |-> Some([ext |-> "mp4", size |-> 10])] }
    ELSE [raised : {TRUE}, forbidden : {FALSE}, effect : DownloadEffects]
         \cup [raised : {FALSE}, forbidden : BOOLEAN, effect : DownloadEffects]

\* vcodec = fmt.get('vcodec', 'none'), acodec likewise
YTHasVideo(fmt) == sGetOr(fmt.vcodec, "none") # sVal("none")
YTHasAudio(fmt) == sGetOr(fmt.acodec, "none") # sVal("none")
YTIsCombined(fmt) == YTHasVideo(fmt) /\ YTHasAudio(fmt)

\* str.lower() on the container names that occur.
Lower(x) == IF x = "MP4" THEN "mp4" ELSE IF x = "WEBM" THEN "webm" ELSE x

\* The dictionary appended to combined_formats.
YTEntry(fmt) ==
    [ format_id |-> fmt.format_id,
      height    |-> nGetOr(fmt.height, 0),
      ext       |-> sGetOr(fmt.ext, ""),
      filesize  |-> IF nTruthy(nGet(fmt.filesize)) THEN nGet(fmt.filesize)
                    ELSE nGetOr(fmt.filesize_approx, 0),
      tbr       |-> nGetOr(fmt.tbr, 0),
      is_mp4    |-> Lower(sGetOr(fmt.ext, "").v) = "mp4" ]

\* ext.lower() on a null ext raises while the formats are partitioned.
YTPartitionRaises(formats) ==
    \E i \in 1..Len(formats) : YTHasVideo(formats[i]) /\ formats[i].ext.st = "null"

YTCombinedFormats(formats) ==
    LET comb == SelectSeq(formats, YTIsCombined)
    IN  [i \in 1..Len(comb) |-> YTEntry(comb[i])]

\* r >= 720 on a null height raises before the first download.
YTPriorityRaises(comb) == \E i \in 1..Len(comb) : comb[i].height.st = "null"

RECURSIVE ReverseSeq(_)
ReverseSeq(q) == IF q = <<>> THEN <<>> ELSE ReverseSeq(Tail(q)) \o <<Head(q)>>

\* A variant of ResolutionPriority that sorts all the groups by growing
\* resolution, without the two tiers.
ResolutionPriorityAscending(comb) ==
    SortedSeq({comb[i].height.v : i \in 1..Len(comb)})

\* high_quality + low_quality
ResolutionPriority(comb) ==
    LET hs == {comb[i].height.v : i \in 1..Len(comb)}
    IN  SortedSeq({h \in hs : h >= 720}) \o ReverseSeq(SortedSeq({h \in hs : h < 720}))

\* key=lambda x: (x['is_mp4'], x['tbr']): False < True, then the bitrate.
GroupKeyLess(e, f) ==
    \/ ~e.is_mp4 /\ f.is_mp4
    \/ e.is_mp4 = f.is_mp4 /\ e.tbr.v < f.tbr.v

RECURSIVE SortGroup(_)
\* formats_for_resolution.sort(key=..., reverse=True), a stable sort.
SortGroup(g) ==
    IF g = <<>> THEN <<>>
    ELSE LET i == CHOOSE k \in 1..Len(g) :
                      /\ \A j \in 1..Len(g) : ~GroupKeyLess(g[k], g[j])
                      /\ \A j \in 1..(k - 1) : GroupKeyLess(g[j], g[k])
         IN  <<g[i]>> \o SortGroup(SubSeq(g, 1, i - 1) \o SubSeq(g, i + 1, Len(g)))

\* Comparing a null bitrate with a number raises inside the sort.
SortGroupRaises(g) ==
    \E i, j \in 1..Len(g) :
        /\ i # j /\ g[i].is_mp4 = g[j].is_mp4
        /\ g[i].tbr.st = "null" /\ g[j].tbr.st = "val"

RaiseStep == [kind |-> "raise"]
RECURSIVE PlanOf(_, _)
\* The combined tier unrolled: the groups in priority order, each sorted when
\* the loop reaches it (a sort that raises ends the plan there).
PlanOf(comb, prio) ==
    IF prio = <<>> THEN <<>>
    ELSE LET InGroup(e) == e.height.v = Head(prio)
             g == SelectSeq(comb, InGroup)
         IN  IF SortGroupRaises(g) THEN <<RaiseStep>>
             ELSE [i \in 1..Len(g) |-> [kind |-> "fmt", fmt |-> SortGroup(g)[i]]]
                  \o PlanOf(comb, Tail(prio))

\* if fmt['filesize'] and fmt['filesize'] > TELEGRAM_SIZE_LIMIT_BYTES: continue
SkippedForSize(e) == nTruthy(e.filesize) /\ e.filesize.v > TELEGRAM_SIZE_LIMIT

\* The automatic selector expressions: alternatives separated by "/", each
\* the streams joined by "+".
SmartSelectors ==
    << << <<"bestvideo[height>=720]", "bestaudio">>, <<"best[height>=720]">> >>,
       << <<"bestvideo", "bestaudio">>, <<"best">> >>,
       << <<"bestvideo[height>=720][ext=mp4]", "bestaudio[ext=m4a]">>,
          <<"bestvideo[height>=720]", "bestaudio">> >>,
       << <<"bestvideo[ext=mp4]", "bestaudio[ext=m4a]">>, <<"bestvideo", "bestaudio">> >>,
       << <<"best[height>=720][ext=mp4]">>, <<"best[ext=mp4]">> >>,
       << <<"best[height>=720]">>, <<"best">> >> >>
SimpleSelectors == << << <<"best">> >>, << <<"worst">> >> >>

\* A variant of HasPlus that asks every alternative of the selector to join
\* streams.
HasPlusThroughout(selector) == \A i \in 1..Len(selector) : Len(selector[i]) > 1

\* '+' in selector
HasPlus(selector) == \E i \in 1..Len(selector) : Len(selector[i]) > 1

\* command.extend(['--merge-output-format', 'mp4']): only the automatic
\* selectors are looked at for a '+'.
MergeOutputFormat(tier, what) == tier = "smart" /\ HasPlus(SmartSelectors[what])

\* process_youtube_shorts_link: what the handler does with video_path.
YTAfterStrategy(s, r, video) ==
    IF video # None
    THEN SetReq(s, r, [outcome |-> "video", video |-> video, pc |-> "meta"])
    ELSE SetReq(s, r, [outcome |-> "failed", pc |-> "edit_fail"])

\* A download invocation of Strategy C, as kept in the history: the tier,
\* the format id or the position of the selector, and whether the command
\* has --merge-output-format.
Invocation(tier, what) ==
    [tier |-> tier, what |-> what, merge |-> MergeOutputFormat(tier, what)]

\* A variant of YTTrySimple that gives up after the first last-resort
\* selector.
YTTrySimpleBestOnly(s, r, i) ==
    IF i > 1 THEN YTAfterStrategy(s, r, None)
    ELSE SetReq(s, r, [tier_i |-> i, pc |-> "yt_simple",
                       invoked |-> Append(s.req[r].invoked, Invocation("simple", i))])

\* The last-resort selectors from position i.
YTTrySimple(s, r, i) ==
    IF i > Len(SimpleSelectors) THEN YTAfterStrategy(s, r, None)
    ELSE SetReq(s, r, [tier_i |-> i, pc |-> "yt_simple",
                       invoked |-> Append(s.req[r].invoked, Invocation("simple", i))])

\* The automatic selectors from position i.
YTTrySmart(s, r, i) ==
    IF i > Len(SmartSelectors) THEN YTTrySimple(s, r, 1)
    ELSE SetReq(s, r, [tier_i |-> i, pc |-> "yt_smart",
                       invoked |-> Append(s.req[r].invoked, Invocation("smart", i))])

\* The combined tier after position i: the next format that is not skipped
\* for its declared size is downloaded; a sort that raises leaves the
\* strategy with the exception; past the last format the selectors follow.
YTTryCombined(s, r, i) ==
    LET plan == s.req[r].plan
        rest == {j \in (i + 1)..Len(plan) :
                    plan[j].kind = "raise" \/ ~SkippedForSize(plan[j].fmt)}
    IN  IF rest = {} THEN YTTrySmart(s, r, 1)
        ELSE LET j == CHOOSE k \in rest : \A m \in rest : k <= m
             IN  IF plan[j].kind = "raise" THEN HandlerExcept(s, r, Err("TypeError", 0))
                 ELSE SetReq(s, r, [tier_i |-> j, pc |-> "yt_comb",
                                    invoked |-> Append(s.req[r].invoked,
                                        Invocation("combined", plan[j].fmt.format_id))])

\* download_video_with_yt_dlp_youtube_shorts once video_info is loaded.
YTAfterCatalog(s, r, formats) ==
    IF formats = <<>> THEN YTAfterStrategy(SetReq(s, r, [catalog |-> Some(formats)]), r, None)
    ELSE IF YTPartitionRaises(formats) THEN HandlerExcept(s, r, Err("AttributeError", 0))
    ELSE LET comb == YTCombinedFormats(formats)
         IN  IF YTPriorityRaises(comb) THEN HandlerExcept(s, r, Err("TypeError", 0))
             ELSE YTTryCombined(SetReq(s, r, [plan |-> PlanOf(comb, ResolutionPriority(comb)),
                                              catalog |-> Some(formats)]), r, 0)

\* process_youtube_shorts_link up to its first await (send_message).
YTStart(r) ==
    /\ At(r, "idle") /\ req[r].platform = "yt"
    /\ Apply(Goto(State, r, "yt_send"))

\* send_message returned or raised (outside the try block); on return the
\* workspace is made and the first catalog invocation started.
YTSendDone(r) ==
    /\ At(r, "yt_send")
    /\ \E ok \in ChatResults :
        Apply(IF ok THEN SetReq(State, r, [ws |-> TRUE, shown |-> "processing",
                                           info_attempt |-> 1, pc |-> "yt_info"])
              ELSE SetReq(State, r, [raised |-> TRUE, pc |-> "done"]))

\* A variant of YTInfoDone that gives up at the first empty, unparsable or
\* failed catalog invocation.
YTInfoDoneNoRetry(r) ==
    /\ At(r, "yt_info")
    /\ \E out \in YTInfoResults, gone \in KillResults :
        Apply(IF out.raised \/ out.stdout.kind # "json"
              THEN YTAfterStrategy(RanYtDlp(r, out, gone), r, None)
              ELSE YTAfterCatalog(RanYtDlp(r, out, gone), r, out.stdout.formats))

\* A variant of YTInfoDone that makes one catalog invocation more
\* (range(1, 5) for range(1, 4)).
YTInfoDoneOneMore(r) ==
    /\ At(r, "yt_info")
    /\ \E out \in YTInfoResults, gone \in KillResults :
        Apply(IF out.raised \/ out.stdout.kind # "json"
              THEN IF req[r].info_attempt < 4
                   THEN SetReq(RanYtDlp(r, out, gone), r, [info_attempt |-> req[r].info_attempt + 1])
                   ELSE YTAfterStrategy(RanYtDlp(r, out, gone), r, None)
              ELSE YTAfterCatalog(RanYtDlp(r, out, gone), r, out.stdout.formats))

\* A catalog invocation ended: up to three are made.
YTInfoDone(r) ==
    /\ At(r, "yt_info")
    /\ \E out \in YTInfoResults, gone \in KillResults :
        Apply(IF out.raised \/ out.stdout.kind # "json"
              THEN IF req[r].info_attempt < 3
                   THEN SetReq(RanYtDlp(r, out, gone), r, [info_attempt |-> req[r].info_attempt + 1])
                   ELSE YTAfterStrategy(RanYtDlp(r, out, gone), r, None)
              ELSE YTAfterCatalog(RanYtDlp(r, out, gone), r, out.stdout.formats))

\* The size check after a download invocation returned: a file of the glob
\* within the ceiling is returned, one above it is removed.  next is what
\* follows when no file is returned.
YTDownloaded(r, s0, out, Next(_)) ==
    LET files == WriteFile(req[r].files, out.effect)
        s1 == SetReq(s0, r, [files |-> files])
    IN  IF GlobFinal(files) = {} THEN Apply(Next(s1))
        ELSE \E f \in GlobFinal(files) :
                IF f.size > TELEGRAM_SIZE_LIMIT
                THEN Apply(Next(SetReq(s1, r, [files |-> files \ {f}, oversize |-> TRUE])))
                ELSE Apply(YTAfterStrategy(s1, r, Some(f)))

\* The download invocation of a combined format ended.
YTCombDone(r) ==
    /\ At(r, "yt_comb")
    /\ \E out \in YTDownloadResults, gone \in KillResults :
        LET files == WriteFile(req[r].files, out.effect)
            s1 == SetReq(RanYtDlp(r, out, gone), r, [files |-> files])
            NextOne(s) == YTTryCombined(s, r, req[r].tier_i)
        IN  IF out.raised \/ out.forbidden THEN Apply(NextOne(s1))
            ELSE YTDownloaded(r, RanYtDlp(r, out, gone), out, NextOne)

\* The download invocation of an automatic selector ended.
YTSmartDone(r) ==
    /\ At(r, "yt_smart")
    /\ \E out \in YTDownloadResults, gone \in KillResults :
        LET files == WriteFile(req[r].files, out.effect)
            s1 == SetReq(RanYtDlp(r, out, gone), r, [files |-> files])
            NextOne(s) == YTTrySmart(s, r, req[r].tier_i + 1)
        IN  IF out.raised THEN Apply(NextOne(s1))
            ELSE YTDownloaded(r, RanYtDlp(r, out, gone), out, NextOne)

\* The download invocation of a last-resort selector ended.
YTSimpleDone(r) ==
    /\ At(r, "yt_simple")
    /\ \E out \in YTDownloadResults, gone \in KillResults :
        LET files == WriteFile(req[r].files, out.effect)
            s1 == SetReq(RanYtDlp(r, out, gone), r, [files |-> files])
            NextOne(s) == YTTrySimple(s, r, req[r].tier_i + 1)
        IN  IF out.raised THEN Apply(NextOne(s1))
            ELSE YTDownloaded(r, RanYtDlp(r, out, gone), out, NextOne)

\* ------------------------------------------------------- /downloadmp3
\* What extract_url_from_command and is_supported_url make of the command.
MP3Commands == {"no_url", "unsupported", "supported"}

\* The yt-dlp invocation of download_mp3: it raised or returned, and the mp3
\* file it left in the workspace, if any.
MP3DownloadResults ==
    [raised : BOOLEAN, effect : {None} \cup {Some([ext |-> "mp3", size |-> z]) : z \in FileSizes}]

\* glob.glob(os.path.join(temp_folder, '*.mp3'))
GlobMp3(files) == {f \in files : f.ext = "mp3"}

\* downloadmp3_command's except block: send_error_to_admin, then return.
MP3CommandReport(s, r, e) ==
    LET s1 == AddReport(SetReq(s, r, [raised |-> FALSE]), r,
                        ReportRec("mp3_command", 0, None, None, e, Some(r)))
    IN  Goto(s1, r, IF admin_group THEN "mp3_admin" ELSE "done")

\* The end of process_mp3_download's finally block: the workspace is removed;
\* an exception that is propagating reaches downloadmp3_command.
MP3Leave(s, r) ==
    IF s.req[r].raised THEN MP3CommandReport(Cleanup(s, r), r, s.req[r].exc)
    ELSE Cleanup(s, r)

\* process_mp3_download's finally block.
MP3Finally(s, r, didRaise) ==
    LET s1 == SetReq(s, r, [raised |-> didRaise])
    IN  IF s1.req[r].success THEN Goto(s1, r, "mp3_fin_del") ELSE MP3Leave(s1, r)

\* process_mp3_download's except block awaits status_msg.edit_text(...).
MP3Except(s, r, e) == SetReq(s, r, [exc |-> e, pc |-> "mp3_exc_edit"])

\* A variant of downloadmp3_command without the test of the chat.
DownloadMp3CommandUngated(s, r, inside) == inside

\* downloadmp3_command: process_mp3_download is entered for a chat of
\* ALLOWED_GROUP_IDS only; inside is the state it leads to.
downloadmp3_command(s, r, inside) ==
    IF s.req[r].allowed THEN inside ELSE Goto(s, r, "done")

\* downloadmp3_command and process_mp3_download up to the first await: the
\* usage or unsupported-link reply, or send_message.
MP3Start(r) ==
    /\ At(r, "idle") /\ req[r].platform = "mp3"
    /\ \E c \in MP3Commands :
        Apply(downloadmp3_command(State, r,
                  IF c = "supported" THEN Goto(State, r, "mp3_send")
                  ELSE SetReq(State, r, [outcome |-> c, pc |-> "mp3_reply"])))

\* start: the greeting is sent to a chat of ALLOWED_GROUP_IDS only.
StartCommand(r) ==
    /\ At(r, "idle") /\ req[r].platform = "start"
    /\ Apply(IF req[r].allowed THEN Goto(State, r, "start_reply") ELSE Goto(State, r, "done"))

\* reply_html returned or raised; start has no try block.
StartReplyDone(r) ==
    /\ At(r, "start_reply")
    /\ \E ok \in ChatResults :
        Apply(IF ok THEN SetReq(State, r, [shown |-> "greeting", pc |-> "done"])
              ELSE SetReq(State, r, [raised |-> TRUE, pc |-> "done"]))

\* reply_text returned or raised; process_mp3_download returns after it.
MP3ReplyDone(r) ==
    /\ At(r, "mp3_reply")
    /\ \E ok \in ChatResults :
        Apply(IF ok THEN SetReq(State, r, [shown |-> req[r].outcome, pc |-> "done"])
              ELSE MP3CommandReport(State, r, ChatError))

\* send_message returned or raised (outside the try block); on return the
\* workspace is made.
MP3SendDone(r) ==
    /\ At(r, "mp3_send")
    /\ \E ok \in ChatResults :
        Apply(IF ok THEN SetReq(State, r, [ws |-> TRUE, shown |-> "processing", pc |-> "mp3_edit0"])
              ELSE MP3CommandReport(State, r, ChatError))

\* The first edit_text of the try block returned or raised.
MP3Edit0Done(r) ==
    /\ At(r, "mp3_edit0")
    /\ \E ok \in ChatResults :
        Apply(IF ok THEN Goto(State, r, "mp3_dl") ELSE MP3Except(State, r, ChatError))

\* download_mp3 ended: None when the invocation raised, when no mp3 file is
\* there, or when the file is above the limit.
MP3DownloadDone(r) ==
    /\ At(r, "mp3_dl")
    /\ \E out \in MP3DownloadResults, gone \in KillResults :
        LET files == WriteFile(req[r].files, out.effect)
            s1 == SetReq(RanMP3(r, out, gone), r, [files |-> files])
        IN  IF out.raised \/ GlobMp3(files) = {}
            THEN Apply(SetReq(s1, r, [outcome |-> "failed", pc |-> "mp3_edit_fail"]))
            ELSE \E f \in GlobMp3(files) :
                    Apply(IF f.size > TELEGRAM_SIZE_LIMIT
                          THEN SetReq(s1, r, [outcome |-> "failed", pc |-> "mp3_edit_fail"])
                          ELSE SetReq(s1, r, [outcome |-> "audio", video |-> Some(f), pc |-> "mp3_meta"]))

\* edit_text with the could-not-download notice returned or raised; on
\* return the handler returns through finally.
MP3EditFailDone(r) ==
    /\ At(r, "mp3_edit_fail")
    /\ \E ok \in ChatResults :
        Apply(IF ok THEN MP3Finally(SetReq(State, r, [shown |-> "fail"]), r, FALSE)
              ELSE MP3Except(State, r, ChatError))

\* get_audio_metadata ended (it swallows its failures).
MP3MetaDone(r) ==
    /\ At(r, "mp3_meta")
    /\ Apply(Goto(State, r, "mp3_edit_send"))

\* edit_text("sending the file") returned or raised.
MP3EditSendDone(r) ==
    /\ At(r, "mp3_edit_send")
    /\ \E ok \in ChatResults :
        Apply(IF ok THEN Goto(State, r, "mp3_send_audio") ELSE MP3Except(State, r, ChatError))

\* send_audio returned or raised; success is set before the triggering
\* message is deleted.
MP3SendAudioDone(r) ==
    /\ At(r, "mp3_send_audio")
    /\ \E ok \in ChatResults :
        Apply(IF ok THEN SetReq(State, r, [sent |-> TRUE, success |-> TRUE, pc |-> "mp3_del_trigger"])
              ELSE MP3Except(State, r, ChatError))

\* delete_message(chat_id, msg_id) returned or raised.
MP3DelTriggerDone(r) ==
    /\ At(r, "mp3_del_trigger")
    /\ \E ok \in ChatResults :
        Apply(IF ok THEN MP3Finally(State, r, FALSE) ELSE MP3Except(State, r, ChatError))

\* The except block's edit_text returned or raised; the block reports
\* nothing and does not raise again.
MP3ExcEditDone(r) ==
    /\ At(r, "mp3_exc_edit")
    /\ \E ok \in ChatResults :
        Apply(IF ok THEN MP3Finally(SetReq(State, r, [shown |-> "unexpected"]), r, FALSE)
              ELSE MP3Finally(State, r, TRUE))

\* status_msg.delete() in the finally block returned or raised (ignored).
MP3FinDelDone(r) ==
    /\ At(r, "mp3_fin_del")
    /\ Apply(MP3Leave(State, r))

\* downloadmp3_command's send_error_to_admin call ended, and with it the
\* command handler.
MP3AdminEnded(s, r, ok) ==
    IF send_error_to_admin(ok) = "returned"
    THEN Goto(ReportEnded(s, r, ok), r, "done")
    ELSE SetReq(ReportEnded(s, r, ok), r, [raised |-> TRUE, pc |-> "done"])

MP3AdminDone(r) ==
    /\ At(r, "mp3_admin")
    /\ \E ok \in ChatResults : Apply(MP3AdminEnded(State, r, ok))

\* ------------------------------------------------------------ specifications
\* The updates the bot receives: none, a /downloadmp3 command, a message.
Off == [kind |-> "off", text |-> None, allowed |-> TRUE]
Command == [kind |-> "mp3", text |-> None, allowed |-> TRUE]
Message(text) == [kind |-> "msg", text |-> Some(text), allowed |-> TRUE]
AnyMessage ==
    [kind : {"msg"}, text : {None} \cup {Some(t) : t \in Texts}, allowed : BOOLEAN]

\* disks: what may be on disk at the path of a request's workspace before the
\* request starts: nothing (None), or a directory with the given files, left
\* by a bot process that was killed before its handler's finally block.
InitOn(w, assignments, igDirs, ttDirs, admins, disks) ==
    \E pl \in assignments, di \in igDirs, dt \in ttDirs, ag \in admins, disk \in disks :
        /\ world = w
        /\ cookie_files = [rot \in Rotators |-> LoadCookieFiles(IF rot = "ig" THEN di ELSE dt)]
        /\ cookie_cycle = [rot \in Rotators |-> 0]
        /\ current_cookie_file = [rot \in Rotators |-> None]
        /\ current_bot_context = None
        /\ admin_group = ag
        /\ req = [r \in Reqs |-> [IdleReq EXCEPT !.platform = pl[r].kind, !.text = pl[r].text,
                                                 !.allowed = pl[r].allowed,
                                                 !.ws = disk # None /\ pl[r] # Off,
                                                 !.files = IF disk # None /\ pl[r] # Off
                                                           THEN disk[1] ELSE {}]]
        /\ ncalls = [rot \in Rotators |-> 0]
        /\ last_ytdlp_stderr = ""
        /\ last_run = NoRun

\* The bot starts with an empty TEMP_DOWNLOADS_DIR.
InitWith(w, assignments, igDirs, ttDirs, admins) ==
    InitOn(w, assignments, igDirs, ttDirs, admins, {None})

TailStep(r) ==
    \/ MetaDone(r) \/ SendVideoDone(r) \/ DelTriggerDone(r) \/ EditFailDone(r)
    \/ ExcEditDone(r) \/ HandlerAdminDone(r) \/ FinDelDone(r)

IGStep(r) ==
    \/ IGStart(r) \/ IGSendDone(r) \/ IGEdit0Done(r) \/ IGCheckDone(r)
    \/ IGDl1Done(r) \/ IGDl2Done(r) \/ IGEditPhotoDone(r) \/ IGEditBigDone(r)

\* One request in flight, every result possible.
\* One update of the given ones, in any of the slots.
Solo(updates) ==
    {pl \in [Reqs -> updates \cup {Off}] : Cardinality({r \in Reqs : pl[r] # Off}) = 1}

InitIG1 == InitWith("all", Solo({Message(<<IGReel>>)}), SUBSET FileIds, {{}}, BOOLEAN)
NextIG1 == \E r \in Reqs : HandleMessage(r) \/ IGStep(r) \/ RotAdminDone(r) \/ TailStep(r)
SpecIG1 == InitIG1 /\ [][NextIG1]_vars

\* The steps that can occur in the calm world.
CalmIGStep(r) ==
    \/ IGStart(r) \/ IGSendDone(r) \/ IGEdit0Done(r) \/ IGCheckDone(r)
    \/ IGDl1Done(r) \/ IGDl2Done(r) \/ IGEditPhotoDone(r)
CalmTailStep(r) ==
    \/ MetaDone(r) \/ SendVideoDone(r) \/ DelTriggerDone(r) \/ EditFailDone(r)
    \/ HandlerAdminDone(r) \/ FinDelDone(r)

TTStep(r) ==
    \/ TTStart(r) \/ TTSendDone(r) \/ TTList0Done(r) \/ TTDl0Done(r)
    \/ TTListDone(r) \/ TTDlDone(r) \/ TTEditNoticeDone(r)

InitTT1 ==
    InitWith("all", Solo({Message(<<TTVideo>>), Message(<<TTShortVm>>)}), {{}}, SUBSET FileIds, BOOLEAN)
NextTT1 == \E r \in Reqs : HandleMessage(r) \/ TTStep(r) \/ RotAdminDone(r) \/ TailStep(r)
SpecTT1 == InitTT1 /\ [][NextTT1]_vars

\* All requests in flight together in the calm world, all of them Instagram
\* requests or all of them TikTok requests; the other platform's pool is empty.
InitRot ==
    \/ InitWith("calm", {[r \in Reqs |-> Message(<<IGReel>>)]}, SUBSET FileIds, {{}}, {TRUE})
    \/ InitWith("calm", {[r \in Reqs |-> Message(<<TTVideo>>)]}, {{}}, SUBSET FileIds, {TRUE})
NextRot == \E r \in Reqs : HandleMessage(r) \/ CalmIGStep(r) \/ TTStep(r) \/ RotAdminDone(r) \/ CalmTailStep(r)
SpecRot == InitRot /\ [][NextRot]_vars

YTStep(r) ==
    \/ YTStart(r) \/ YTSendDone(r) \/ YTInfoDone(r) \/ YTCombDone(r)
    \/ YTSmartDone(r) \/ YTSimpleDone(r)

InitYT1 == InitWith("all", Solo({Message(<<YTShorts>>)}), {{}}, {{}}, BOOLEAN)
NextYT1 == \E r \in Reqs : HandleMessage(r) \/ YTStep(r) \/ TailStep(r)
SpecYT1 == InitYT1 /\ [][NextYT1]_vars

\* One message of any text, from an allowed chat or not, in the calm world.
InitMsg == InitWith("calm", Solo(AnyMessage), {FileIds}, {FileIds}, {TRUE})
NextMsg ==
    \E r \in Reqs :
        \/ HandleMessage(r)
        \/ CalmIGStep(r) \/ TTStep(r) \/ YTStep(r)
        \/ RotAdminDone(r) \/ CalmTailStep(r)
SpecMsg == InitMsg /\ [][NextMsg]_vars

\* ------------------------------------------------------------------ claims
\* The handler task of request r has returned or raised (for /downloadmp3,
\* process_mp3_download has; downloadmp3_command may still be reporting).
Left(r) == req[r].pc \in {"done", "mp3_admin"}

\* The send_error_to_admin calls of request r made by `by`.
ReportsBy(r, by) == {j \in 1..Len(req[r].reports) : req[r].reports[j].by = by}
HandlerReports(r) == {j \in 1..Len(req[r].reports) : req[r].reports[j].by # "rotator"}

\* The failure e is terminal for the rotator of request r.
Terminal(r, e) == Rot(r) = "ig" /\ IsPhotoOnly(e)

\* The size of the pool request r rotates.
PoolSize(r) == IF req[r].platform \in Rotators THEN Len(cookie_files[Rot(r)]) ELSE 0

RoundRobin ==
    \A rot \in Rotators :
        LET n == Len(cookie_files[rot])
        IN  /\ \A i, j \in 1..n : i < j => cookie_files[rot][i] < cookie_files[rot][j]
            /\ ncalls[rot] > 0 =>
                  current_cookie_file[rot] = Some(cookie_files[rot][((ncalls[rot] - 1) % n) + 1])

\* C2: a pool of two bundles has wrapped around, after a request ended.
RoundRobinWitness ==
    \E rot \in Rotators :
        /\ Len(cookie_files[rot]) = 2 /\ ncalls[rot] = 3
        /\ current_cookie_file[rot] = Some(cookie_files[rot][1])
        /\ \E r \in Reqs : req[r].pc = "done"

\* C3: when an attempt of CookieRotator fails with PHOTO_ONLY, the call raises
\* that failure, takes no further bundle and reports nothing for the attempt;
\* a terminal first attempt is the only attempt.
TerminalStops ==
    \A r \in Reqs :
        LET me == req[r]
        IN  /\ \A i \in 1..Len(me.failed) :
                Terminal(r, me.failed[i]) =>
                    /\ i = Len(me.failed) /\ me.failed[i].att = Len(me.tried)
                    /\ me.rot_exc = me.failed[i]
                    /\ \A j \in ReportsBy(r, "rotator") : me.reports[j].att # me.failed[i].att
            /\ IsPhotoOnly(me.rot_exc) => me.platform = "ig"

\* C3: the first attempt on a pool of two bundles was terminal and the request
\* is over.
TerminalStopsWitness ==
    \E r \in Reqs :
        /\ req[r].pc = "done" /\ PoolSize(r) = 2
        /\ IsPhotoOnly(req[r].rot_exc) /\ req[r].rot_exc.att = 1
        /\ Len(req[r].tried) = 1

\* The rotation of request r is over with every attempt failed non-terminally.
AllAttemptsFailed(r) ==
    /\ PoolSize(r) >= 1 /\ Len(req[r].failed) = PoolSize(r)
    /\ \A i \in 1..Len(req[r].failed) : ~Terminal(r, req[r].failed[i])
    /\ req[r].pc # "rot_admin"

\* C4: with N bundles and every attempt failing non-terminally the operation
\* is invoked exactly N times and the call raises the all-failed error with
\* the last attempt's error.
ExhaustedAfterN ==
    \A r \in Reqs :
        LET me == req[r]
        IN  /\ AllAttemptsFailed(r) =>
                /\ Len(me.tried) = PoolSize(r)
                /\ me.rot_exc = AllFailed(me.failed[PoolSize(r)])
            /\ me.rot_exc.kind = "AllFailed" => AllAttemptsFailed(r)

\* C4: the TikTok rotator exhausted a pool of two bundles.
ExhaustedAfterNWitness ==
    \E r \in Reqs :
        /\ req[r].platform = "tt" /\ PoolSize(r) = 2
        /\ req[r].rot_exc.kind = "AllFailed" /\ req[r].rot_exc.att = 2

NoReportOnMismatch ==
    \A r \in Reqs : req[r].shown = "photo" => req[r].reports = <<>>

\* C8 amended: such a request makes no call at handler level and none for the
\* attempt that detected the mismatch; its only calls are the per-attempt
\* reports of the earlier attempts, which failed non-terminally; there is
\* none when the first attempt detected the mismatch.
MismatchReports ==
    \A r \in Reqs :
        LET me == req[r]
        IN  me.shown = "photo" =>
            /\ IsPhotoOnly(me.rot_exc)
            /\ \A j \in 1..Len(me.reports) :
                  /\ me.reports[j].by = "rotator"
                  /\ me.reports[j].att < me.rot_exc.att
                  /\ ~IsPhotoOnly(me.reports[j].err)
            /\ me.rot_exc.att = 1 => me.reports = <<>>

\* C8: the second attempt detected the mismatch after the first attempt's
\* failure was reported.
MismatchReportsWitness ==
    \E r \in Reqs :
        /\ req[r].shown = "photo" /\ req[r].pc = "done"
        /\ req[r].rot_exc.att = 2 /\ Len(req[r].reports) = 1

\* The failure of request r is a declared one: no combined format of the
\* catalog has a known size under the ceiling (NoSuitableFormat: on the
\* unauthenticated TikTok path, or at every attempt of the credential path),
\* or the file is too large (the Instagram pre-upload check; in Strategy C
\* every downloaded file was above the ceiling).
NoSuitableEverywhere(r) ==
    /\ req[r].platform = "tt" /\ req[r].rot_exc.kind = "AllFailed"
    /\ \A i \in 1..Len(req[r].failed) : req[r].failed[i].kind = "NoSuitable"
OversizeEverywhere(r) ==
    req[r].platform = "yt" /\ req[r].outcome = "failed" /\ req[r].oversize
DeclaredFailure(r) ==
    \/ req[r].outcome = "no_suitable"
    \/ NoSuitableEverywhere(r)
    \/ req[r].shown = "big"
    \/ OversizeEverywhere(r)

\* C9: a request whose failure is NoSuitableFormat or Oversize makes no
\* send_error_to_admin call for it: none that carries the no-suitable-format
\* error of an attempt and none for a failed download.
NoReportOnDeclaredFailure ==
    \A r \in Reqs :
        Left(r) /\ DeclaredFailure(r) =>
            \A j \in 1..Len(req[r].reports) :
                /\ req[r].reports[j].by # "handler_failed"
                /\ req[r].reports[j].err.kind # "NoSuitable"

CodecPresent(x) == x.st = "val" /\ x.v # "none"
IsCombinedFormat(f) == CodecPresent(f.vcodec) /\ CodecPresent(f.acodec)
SizeOf(f) ==
    IF f.filesize.st = "val" /\ f.filesize.v # 0 THEN f.filesize.v
    ELSE IF f.filesize_approx.st = "val" THEN f.filesize_approx.v ELSE 0
Fitting(c) ==
    {i \in 1..Len(c) : IsCombinedFormat(c[i]) /\ SizeOf(c[i]) > 0 /\ SizeOf(c[i]) < TELEGRAM_SIZE_LIMIT}
HeightOf(f) == IF f.height.st = "val" THEN f.height.v ELSE 0
BitrateOf(f) == IF f.tbr.st = "val" THEN f.tbr.v ELSE 0
LexLess(f, g) ==
    HeightOf(f) < HeightOf(g) \/ (HeightOf(f) = HeightOf(g) /\ BitrateOf(f) < BitrateOf(g))

\* C11: Strategy B selects, from the catalog of its metadata call, a combined
\* format with known size strictly below the ceiling and maximal (height,
\* bitrate), and fails with NoSuitableFormat exactly when the catalog has no
\* such format.
SizeCappedBest ==
    \A r \in Reqs :
        LET me == req[r]
        IN  me.platform = "tt" /\ me.catalog # None =>
            LET c == me.catalog[1]
            IN  /\ me.pc \in {"tt_dl0", "tt_dl"} =>
                    \E i \in Fitting(c) :
                        /\ me.chosen = Some(c[i].format_id)
                        /\ \A j \in Fitting(c) : ~LexLess(c[i], c[j])
                /\ Fitting(c) # {} =>
                    /\ ~(me.pc = "tt_edit_notice" /\ me.outcome = "no_suitable")
                    /\ ~(me.last_error.kind = "NoSuitable" /\ me.last_error.att = me.attempt)

\* The rank of a resolution group in the combined tier: the groups of 720
\* and more by growing resolution, then the others by falling resolution.
GroupRank(h) == IF h >= 720 THEN h ELSE 100000 - h

\* e comes strictly before f in the order of the combined tier.
AttemptedBefore(e, f) ==
    \/ GroupRank(e.height.v) < GroupRank(f.height.v)
    \/ /\ e.height.v = f.height.v
       /\ \/ e.is_mp4 /\ ~f.is_mp4
          \/ e.is_mp4 = f.is_mp4 /\ e.tbr.v > f.tbr.v

IsCombinedInvocation(v) == v.tier = "combined"
CombinedInvoked(q) == SelectSeq(q, IsCombinedInvocation)

\* The position in the plan of the format with this id.
PlanPos(plan, id) ==
    CHOOSE i \in 1..Len(plan) : plan[i].kind = "fmt" /\ plan[i].fmt.format_id = id

\* C12: in Strategy C the combined formats are attempted in one total order:
\* the resolution groups of 720 and more by growing resolution, then the
\* groups below 720 by falling resolution, inside a group mp4 containers
\* first and then the higher bitrate; the download invocations follow that
\* order, so a format is attempted only after every format before it was
\* skipped for its declared size or had its own invocation fail.
CombinedOrder ==
    \A r \in Reqs :
        LET me == req[r]
            plan == me.plan
            inv == CombinedInvoked(me.invoked)
            Fmts == {i \in 1..Len(plan) : plan[i].kind = "fmt"}
        IN  me.platform = "yt" /\ plan # <<>> /\ me.catalog # None =>
            /\ \A i, j \in Fmts : i < j => ~AttemptedBefore(plan[j].fmt, plan[i].fmt)
            /\ Fmts = 1..Len(plan) =>
                   LET comb == YTCombinedFormats(me.catalog[1])
                   IN  /\ Len(plan) = Len(comb)
                       /\ {plan[i].fmt : i \in Fmts} = {comb[i] : i \in 1..Len(comb)}
            /\ \A n \in 1..Len(inv) :
                   /\ \E i \in Fmts : plan[i].fmt.format_id = inv[n].what
                   /\ n > 1 => PlanPos(plan, inv[n - 1].what) < PlanPos(plan, inv[n].what)
                   /\ \A i \in 1..(PlanPos(plan, inv[n].what) - 1) :
                          \/ SkippedForSize(plan[i].fmt)
                          \/ \E m \in 1..(n - 1) : inv[m].what = plan[i].fmt.format_id
            /\ me.pc \in {"yt_smart", "yt_simple"} =>
                   \A i \in Fmts :
                       \/ SkippedForSize(plan[i].fmt)
                       \/ \E m \in 1..Len(inv) : inv[m].what = plan[i].fmt.format_id

\* 480p and 720p both fit: the 720p format was downloaded first, and the 480p
\* one after that invocation failed.
CombinedOrderWitness ==
    \E r \in Reqs :
        LET me == req[r]
            inv == CombinedInvoked(me.invoked)
        IN  /\ me.platform = "yt" /\ me.pc = "yt_comb" /\ Len(me.plan) = 2
            /\ me.plan[1].fmt.height.v = 720 /\ me.plan[2].fmt.height.v = 480
            /\ ~SkippedForSize(me.plan[1].fmt) /\ ~SkippedForSize(me.plan[2].fmt)
            /\ Len(inv) = 2
            /\ inv[1].what = me.plan[1].fmt.format_id
            /\ inv[2].what = me.plan[2].fmt.format_id

\* The download invocations of a whole run of the tiers over this plan: the
\* combined formats not skipped for their declared size, in plan order, the
\* automatic selectors, the last-resort selectors.
IsAttempted(step) == step.kind = "fmt" /\ ~SkippedForSize(step.fmt)
EveryTier(plan) ==
    LET att == SelectSeq(plan, IsAttempted)
    IN  [i \in 1..Len(att) |-> Invocation("combined", att[i].fmt.format_id)]
        \o [i \in 1..Len(SmartSelectors) |-> Invocation("smart", i)]
        \o [i \in 1..Len(SimpleSelectors) |-> Invocation("simple", i)]

\* Strategy C has just returned None to its handler.
ReturnedNone(r) ==
    req[r].platform = "yt" /\ req[r].pc = "edit_fail" /\ req[r].outcome = "failed"

\* C13 as stated: Strategy C returns None only after every tier was tried:
\* every combined candidate not skipped for its declared size, the six
\* automatic selectors and the two last-resort selectors each had a download
\* invocation before.
NoneOnlyAfterEveryTier ==
    \A r \in Reqs : ReturnedNone(r) => req[r].invoked = EveryTier(req[r].plan)

\* C13: once the catalog is loaded with at least one format, Strategy C
\* returns None only after every tier was tried, in order: every combined
\* candidate not skipped for its declared size, the six automatic selectors
\* and the two last-resort selectors; when the three catalog invocations all
\* fail, or the catalog has no format, it returns None with no download
\* invocation at all.
NoneAfterCatalogTiers ==
    \A r \in Reqs :
        LET me == req[r]
        IN  ReturnedNone(r) =>
            /\ me.catalog # None /\ me.catalog[1] # <<>> => me.invoked = EveryTier(me.plan)
            /\ me.catalog = None => me.invoked = <<>> /\ me.info_attempt = 3
            /\ me.catalog = Some(<<>>) => me.invoked = <<>>

\* None was returned for a catalog with two combined candidates after all
\* ten download invocations.
NoneAfterCatalogTiersWitness ==
    \E r \in Reqs :
        /\ ReturnedNone(r) /\ req[r].catalog # None
        /\ Len(SelectSeq(req[r].plan, IsAttempted)) = 2
        /\ Len(req[r].invoked) = 2 + Len(SmartSelectors) + Len(SimpleSelectors)

\* The request of slot r arrived as a message and handle_message has
\* entered it.
Dispatched(r) == req[r].text # None /\ req[r].allowed /\ req[r].platform # "msg"

\* The first link of the text that is of this kind.
FirstLink(text, Matches(_)) ==
    text[CHOOSE i \in 1..Len(text) : Matches(text[i]) /\ \A j \in 1..(i - 1) : ~Matches(text[j])]
Holds(text, Matches(_)) == \E i \in 1..Len(text) : Matches(text[i])

\* Nothing was done for request r: no chat call, no workspace, no
\* subprocess, no report.
Untouched(r) ==
    [req[r] EXCEPT !.platform = "off", !.pc = "idle", !.text = None, !.allowed = TRUE] = IdleReq

\* C14: handle_message runs at most one strategy per message, chosen by the
\* priority Instagram, TikTok, YouTube Shorts, with the first link of that
\* kind; links of a lower priority in the same text are never processed; a
\* text without a matching link causes no chat action and no subprocess.
DispatchPriority ==
    \A r \in Reqs :
        Dispatched(r) =>
            LET me == req[r]
                text == me.text[1]
            IN  /\ Holds(text, MatchesInstagram) =>
                       me.platform = "ig" /\ me.url = Some(FirstLink(text, MatchesInstagram))
                /\ ~Holds(text, MatchesInstagram) /\ Holds(text, MatchesTikTok) =>
                       me.platform = "tt" /\ me.url = Some(FirstLink(text, MatchesTikTok))
                /\ /\ ~Holds(text, MatchesInstagram) /\ ~Holds(text, MatchesTikTok)
                   /\ Holds(text, MatchesShorts)
                   => me.platform = "yt" /\ me.url = Some(FirstLink(text, MatchesShorts))
                /\ /\ ~Holds(text, MatchesInstagram) /\ ~Holds(text, MatchesTikTok)
                   /\ ~Holds(text, MatchesShorts)
                   => me.platform = "none" /\ Untouched(r)
                /\ me.platform = "ig" => me.resolved_url = None /\ me.invoked = <<>> /\ me.catalog = None
                /\ me.platform = "tt" => me.invoked = <<>> /\ me.info_attempt = 0
                /\ me.platform = "yt" => me.resolved_url = None /\ me.tried = <<>>

\* A text with a TikTok link followed by an Instagram link: the Instagram
\* strategy ran with a credential bundle, the TikTok link was left alone.
DispatchPriorityWitness ==
    \E r \in Reqs :
        /\ Dispatched(r) /\ req[r].text = Some(<<TTVideo, IGReel>>)
        /\ req[r].platform = "ig" /\ req[r].tried # <<>> /\ req[r].pc = "done"

\* The TikTok handler of request r is past its send_message call, so the
\* strategy has been entered.
TTStrategyEntered(r) ==
    req[r].platform = "tt" /\ req[r].pc \notin {"idle", "tt_send"} /\ req[r].shown # "none"

\* C15: for a short link (vm. / vt.) the redirects are resolved before the
\* first extraction invocation and the strategy is passed the resolved URL;
\* when the resolution fails with a request error or a timeout the strategy
\* is passed the original URL and the request goes on; any other URL is
\* passed as it is.
ResolvedBeforeExtraction ==
    \A r \in Reqs :
        LET me == req[r]
        IN  /\ me.platform = "tt" /\ me.pc \in {"idle", "tt_send"} =>
                   me.resolved_url = None /\ ncalls["tt"] = 0 /\ me.catalog = None
            /\ TTStrategyEntered(r) =>
                   /\ me.url # None /\ me.resolved_url # None
                   /\ IsShortLink(me.url[1]) => me.resolved_url[1] \in {TTVideo, me.url[1]}
                   /\ ~IsShortLink(me.url[1]) => me.resolved_url = me.url
            /\ me.platform = "tt" /\ me.pc = "tt_list0" => me.exc = NoError /\ ~me.raised

\* A short link whose resolution failed: the original URL went to the
\* strategy, and the video was sent.
ResolvedBeforeExtractionWitness ==
    \E r \in Reqs :
        /\ TTStrategyEntered(r) /\ IsShortLink(req[r].url[1])
        /\ req[r].resolved_url = req[r].url /\ req[r].sent

\* C16: run_subprocess (of either file) surfaces a timeout failure whenever
\* the child does not complete in time, after process.kill() was called;
\* when the child is already gone at kill time (ProcessLookupError) a
\* timeout failure surfaces all the same, never a normal result.
TimeoutSurfaces ==
    ~last_run.in_time =>
        /\ last_run.raised \in {"TimeoutError", "asyncio.TimeoutError"}
        /\ last_run.kill \in {"killed", "ProcessLookupError"}
        /\ last_run.gone <=> last_run.kill = "ProcessLookupError"

\* A call timed out, its child was gone at kill time, and the attempt it
\* belonged to failed with the timeout.
TimeoutSurfacesWitness ==
    /\ ~last_run.in_time /\ last_run.gone /\ last_run.raised = "asyncio.TimeoutError"
    /\ \E r \in Reqs :
           /\ req[r].platform = "ig" /\ req[r].last_error.kind = "Timeout"
           /\ req[r].last_error.att = req[r].attempt

\* The slot after the call that ended last: the stderr of that call when it
\* was a call of media_bot.py that completed normally, else what it was
\* before the call.
SlotAsLastRunLeftIt ==
    IF last_run.module = "media_bot" /\ last_run.raised = "none"
    THEN last_ytdlp_stderr = last_run.stderr
    ELSE last_ytdlp_stderr = last_run.before

\* Every report made in this step has the slot's value of the moment
\* attached (nothing when the slot is blank).
ReportsAttachSlot ==
    \A r \in Reqs :
        Len(req'[r].reports) > Len(req[r].reports) =>
            /\ Len(req'[r].reports) = Len(req[r].reports) + 1
            /\ req'[r].reports[Len(req'[r].reports)].attached = AttachedText(last_ytdlp_stderr')

\* C17: _last_ytdlp_stderr, empty at first, is the stderr of the most recent
\* run_subprocess call of media_bot.py that completed normally, whatever the
\* request or the tool; a call that timed out leaves it as it was; the text
\* attached to an error report is the slot's value when the report is made.
SlotFollowsRuns ==
    /\ last_ytdlp_stderr = "" /\ last_run = NoRun
    /\ [][SlotAsLastRunLeftIt' /\ ReportsAttachSlot]_vars

\* The unauthenticated TikTok call left its stderr in the slot, the call
\* with the first bundle timed out, and the report of that attempt carries
\* the stderr of the earlier call.
SlotFollowsRunsWitness ==
    \E r \in Reqs :
        /\ req[r].platform = "tt" /\ ~last_run.in_time /\ last_run.module = "media_bot"
        /\ last_ytdlp_stderr = "ERROR: Log in for access"
        /\ Len(req[r].reports) = 1
        /\ req[r].reports[1].err.kind = "Timeout"
        /\ req[r].reports[1].attached = Some(last_ytdlp_stderr)

\* The attempt of request r that is under way (or was the last) has had its
\* metadata invocation return.
Checked(r) ==
    /\ req[r].platform = "ig" /\ req[r].check # None
    /\ req[r].check[1].att = req[r].attempt

\* What that attempt raised, if it has failed.
RaisedKinds(r) ==
    {req[r].failed[i].kind : i \in {j \in 1..Len(req[r].failed) :
                                       req[r].failed[j].att = req[r].attempt}}
RaisedPhotoOnly(r) == "PHOTO_ONLY" \in RaisedKinds(r)

\* C18 as stated: Strategy A raises the terminal ContentMismatch only if
\* both checks show no video: the stderr signal and metadata with neither a
\* video format nor a positive duration.
MismatchNeedsBothChecks ==
    \A r \in Reqs :
        Checked(r) /\ RaisedPhotoOnly(r) =>
            req[r].check[1].signal /\ req[r].check[1].metadata = "no_video"

\* C18: Strategy A raises the terminal ContentMismatch exactly when one of
\* the two checks shows no video: the stderr signal, whatever stdout holds,
\* or, without the signal, parsed metadata with neither a video format nor a
\* positive duration; otherwise the attempt goes on to the download or fails
\* with an error that lets the rotation continue.
MismatchOnEitherCheck ==
    \A r \in Reqs :
        Checked(r) =>
            LET c == req[r].check[1]
            IN  /\ RaisedPhotoOnly(r) <=> (c.signal \/ c.metadata = "no_video")
                /\ RaisedPhotoOnly(r) => req[r].rot_exc.kind = "PHOTO_ONLY"
                /\ ~c.signal /\ c.metadata = "unknown" =>
                       RaisedKinds(r) # {} /\ RaisedKinds(r) \subseteq {"NoInfo", "BadJson"}
                /\ ~c.signal /\ c.metadata = "video" =>
                       RaisedKinds(r) \subseteq {"Timeout", "NotCreated"}

\* The stderr signal alone, with metadata that shows a video, ended the
\* rotation with the photos-only notice.
MismatchOnEitherCheckWitness ==
    \E r \in Reqs :
        /\ Checked(r) /\ RaisedPhotoOnly(r)
        /\ req[r].check[1].signal /\ req[r].check[1].metadata = "video"
        /\ req[r].shown = "photo"

\* C19: Strategy A returns a video for an attempt only if a .mp4 file is in
\* the workspace after the attempt's download invocations, and that file is
\* what it returns; when the downloads completed without leaving one, the
\* attempt fails with an error that is not terminal and the rotation goes on.
SuccessNeedsMp4 ==
    \A r \in Reqs :
        LET me == req[r]
            n == Len(me.failed)
        IN  me.platform = "ig" =>
            /\ me.outcome = "video" =>
                   /\ me.video # None => me.video[1].ext = "mp4"
                   /\ me.ws => me.video # None /\ me.video[1] \in me.files
            /\ me.ws /\ GlobMp4(me.files) # {} => me.outcome = "video"
            /\ n > 0 /\ me.failed[n].kind = "NotCreated" /\ me.ws /\ me.attempt = me.failed[n].att =>
                   /\ GlobMp4(me.files) = {}
                   /\ me.rot_exc.kind \in {"None", "AllFailed"}
                   /\ me.rot_exc.kind = "None" => me.pc = "rot_admin" \/ me.attempt < PoolSize(r)

\* An attempt whose download left only a .webm file failed, and the next
\* bundle's attempt returned the .mp4 file it left.
SuccessNeedsMp4Witness ==
    \E r \in Reqs :
        /\ req[r].platform = "ig" /\ req[r].outcome = "video" /\ req[r].ws
        /\ Len(req[r].failed) = 1 /\ req[r].failed[1].kind = "NotCreated"
        /\ req[r].attempt = 2
        /\ \E f \in req[r].files : f.ext = "webm"

\* "This post may not be comfortable for some audiences" in stderr or
\* "Log in for access" in stderr
HasRestrictionMarker(stderr) == stderr = "ERROR: Log in for access"

\* The pcs at which request r waits for a subprocess.
SubprocessPcs ==
    {"tt_list0", "tt_dl0", "tt_list", "tt_dl", "ig_check", "ig_dl1", "ig_dl2", "meta",
     "yt_info", "yt_comb", "yt_smart", "yt_simple", "mp3_dl"}

\* The step of request r in which its unauthenticated metadata invocation
\* ends: what the slot then holds is that invocation's stderr.
EndsFirstInvocation(r) == req[r].platform = "tt" /\ req[r].pc = "tt_list0" /\ req'[r] # req[r]

\* C20: Strategy B starts with exactly one unauthenticated metadata
\* invocation, and goes to the credential pool exactly when that invocation
\* returned with a restriction marker in its stderr and the pool is not
\* empty; with the marker and an empty pool it returns the "not configured"
\* message, with no further subprocess invocation, no bundle taken and no
\* error report.
EscalatesOnMarker ==
    [][\A r \in Reqs :
        LET marked == last_run'.raised = "none" /\ HasRestrictionMarker(last_ytdlp_stderr')
            pooled == req'[r].tried # <<>> \/ ncalls'["tt"] > ncalls["tt"]
        IN  /\ req'[r].platform = "tt" /\ req'[r].pc = "tt_list0" /\ req[r].pc # "tt_list0" =>
                   req[r].pc = "tt_send" /\ req'[r].tried = <<>> /\ req'[r].chosen = None
            /\ req[r].platform = "tt" /\ req'[r].pc \in {"tt_dl0", "tt_list"} /\ req[r].pc = "tt_send" =>
                   FALSE
            /\ EndsFirstInvocation(r) =>
                   /\ pooled <=> (marked /\ cookie_files["tt"] # <<>>)
                   /\ pooled => req'[r].pc \in {"tt_list", "rot_admin"}
                   /\ marked /\ cookie_files["tt"] = <<>> =>
                          /\ req'[r].outcome = "not_configured" /\ req'[r].pc = "tt_edit_notice"
                          /\ req'[r].reports = <<>> /\ req'[r].tried = <<>>
                          /\ req'[r].files = {}
            /\ req[r].outcome = "not_configured" =>
                   /\ req'[r].pc \notin SubprocessPcs /\ req'[r].tried = <<>>
                   /\ \A j \in 1..Len(req'[r].reports) : req'[r].reports[j].by = "handler_exc"
      ]_vars

\* The invocation returned the marker, the pool is empty, and the user was
\* shown the "not configured" message.
EscalatesOnMarkerWitness ==
    \E r \in Reqs :
        /\ req[r].platform = "tt" /\ req[r].outcome = "not_configured"
        /\ cookie_files["tt"] = <<>> /\ HasRestrictionMarker(last_ytdlp_stderr)
        /\ req[r].shown = "not_configured" /\ req[r].pc = "done" /\ req[r].reports = <<>>

\* The file a request has handed to send_video or send_audio, while that
\* call is awaited.
Uploading(r) == req[r].pc \in {"send_video", "mp3_send_audio"}

\* C21: no file whose size exceeds TELEGRAM_SIZE_LIMIT is ever passed to
\* send_video or send_audio, on any platform.
NoOversizeUpload ==
    \A r \in Reqs :
        Uploading(r) => req[r].video[1].size <= TELEGRAM_SIZE_LIMIT

\* C22: once send_video (send_audio) of a request has returned, a chat call
\* of that request that fails afterwards does not make the request a failure:
\* the status message never shows a failure notice and the handler escalates
\* no error report.
DeliveredStaysDelivered ==
    \A r \in Reqs :
        req[r].sent =>
            /\ req[r].shown \notin {"fail", "unexpected"}
            /\ req[r].pc \notin {"exc_edit", "mp3_exc_edit"}
            /\ ReportsBy(r, "handler_exc") = {}
            /\ ReportsBy(r, "mp3_command") = {}

\* The positions at which a task awaits the send_document of a report.
AdminPcs == {"rot_admin", "h_admin", "mp3_admin"}

\* What a step that ends the report of request r makes of the request when
\* send_document returned.
AfterDeliveredReport(r) ==
    IF req[r].pc = "rot_admin" THEN RotAdminEnded(State, r, TRUE).req[r]
    ELSE IF req[r].pc = "h_admin" THEN HandlerAdminEnded(State, r, TRUE).req[r]
    ELSE MP3AdminEnded(State, r, TRUE).req[r]

\* A step that ends a report leaves the request as a delivered report does,
\* the record of the loss apart; no exception leaves the call.
ReportStep ==
    \A r \in Reqs :
        req[r].pc \in AdminPcs /\ req'[r].pc # req[r].pc =>
            /\ [req'[r] EXCEPT !.report_lost = FALSE]
                    = [AfterDeliveredReport(r) EXCEPT !.report_lost = FALSE]
            /\ req'[r].raised = req[r].raised
            /\ req'[r].pc \notin {"exc_edit", "mp3_exc_edit"}
            /\ req[r].pc = "h_admin" => req'[r].pc = "done" /\ ~req'[r].ws

\* Without ADMIN_GROUP_ID no report is ever sent.
NoGroupNoReport == ~admin_group => \A r \in Reqs : req[r].pc \notin AdminPcs /\ ~req[r].report_lost

\* C23: send_error_to_admin never raises: when send_document fails the
\* caller goes on exactly as after a delivered report (same notice, same
\* result, workspace removed), and without an admin group the call sends
\* nothing.
ReportNeverRaises == NoGroupNoReport /\ [][ReportStep /\ NoGroupNoReport']_vars

ReportNeverRaisesWitness ==
    \E r \in Reqs :
        /\ admin_group /\ req[r].report_lost
        /\ ReportsBy(r, "handler_failed") # {}
        /\ req[r].pc = "done" /\ ~req[r].raised /\ ~req[r].ws
        /\ req[r].shown = "fail"

\* The request ended with every attempt exhausted, or an exception reached
\* the handler's except block (the status message exists, so the exception
\* was raised inside the try statement).
Exhausted(r) ==
    IF req[r].platform \in Rotators THEN req[r].rot_exc.kind = "AllFailed"
    ELSE req[r].platform = "yt" /\ req[r].outcome = "failed"
UnexpectedRaised(r) ==
    req[r].platform \in {"ig", "tt", "yt"} /\ (req[r].shown = "unexpected" \/ (req[r].raised /\ req[r].shown # "none"))

\* C24: every request that ends with all attempts exhausted, or with an
\* unexpected exception raised inside the handler's try block, has had a
\* send_error_to_admin call by its handler when the handler ends, also when
\* chat calls fail.
EscalatedBeforeEnd ==
    \A r \in Reqs :
        req[r].pc = "done" /\ (Exhausted(r) \/ UnexpectedRaised(r)) =>
            HandlerReports(r) # {}

\* The phases of the shared state machine, read off a request: the terminal
\* phase is the result the strategy returned, the others are the positions of
\* the strategy.  FormatSelect has no position of its own (the step that ends
\* a metadata invocation selects and starts the download); TryNext is
\* the rotator's report between two attempts, where there is one.  "Aborted":
\* an exception left the strategy, or the handler failed before it.
ProbePcs == {"ig_check", "tt_list0", "tt_list", "yt_info"}
DownloadPcs == {"ig_dl1", "ig_dl2", "tt_dl0", "tt_dl", "yt_comb", "yt_smart", "yt_simple"}
InitPcs == {"idle", "ig_send", "ig_edit0", "tt_send", "yt_send"}
TerminalPhases == {"Success", "ContentMismatch", "Oversize", "AllExhausted"}

Phase(r) ==
    LET me == req[r]
    IN  IF me.outcome = "video" THEN "Success"
        ELSE IF me.outcome = "mismatch" THEN "ContentMismatch"
        ELSE IF me.outcome = "no_suitable" THEN "Oversize"
        ELSE IF me.outcome # "none" THEN "AllExhausted"
        ELSE IF me.pc \in ProbePcs THEN "MetadataProbe"
        ELSE IF me.pc \in DownloadPcs THEN "Downloading"
        ELSE IF me.pc = "rot_admin" THEN "TryNext"
        ELSE IF me.pc \in InitPcs THEN "Init"
        ELSE "Aborted"

\* The position of a request inside its strategy: a step of the request
\* that changes it starts a new invocation or ends the strategy.
Position(r) ==
    <<req[r].pc, req[r].attempt, req[r].info_attempt, Len(req[r].invoked), req[r].outcome>>

LinkRequest(r) == req[r].platform \in {"msg", "ig", "tt", "yt"}

\* The steps every phase machine below allows: inside Init, inside a terminal
\* phase (the handler's work after the strategy), and an abort.
CommonEdges ==
    {<<"Init", "Init">>, <<"Init", "MetadataProbe">>, <<"Aborted", "Aborted">>}
    \cup {<<t, t>> : t \in TerminalPhases}
    \cup {<<p, "Aborted">> : p \in {"Init", "MetadataProbe"}}

\* The machine as the claim states it.
StatedEdges ==
    CommonEdges \cup
    { <<"MetadataProbe", "ContentMismatch">>, <<"MetadataProbe", "Downloading">>,
      <<"Downloading", "Success">>, <<"Downloading", "Oversize">>,
      <<"Downloading", "TryNext">>, <<"Downloading", "Downloading">>,
      <<"TryNext", "Downloading">>,
      <<"Downloading", "AllExhausted">>, <<"TryNext", "AllExhausted">> }

\* The machine the strategies follow.
StrategyEdges ==
    CommonEdges \cup
    { <<"Init", "AllExhausted">>,
      <<"MetadataProbe", "ContentMismatch">>, <<"MetadataProbe", "Downloading">>,
      <<"MetadataProbe", "MetadataProbe">>, <<"MetadataProbe", "TryNext">>,
      <<"MetadataProbe", "Oversize">>, <<"MetadataProbe", "AllExhausted">>,
      <<"Downloading", "Success">>, <<"Downloading", "Downloading">>,
      <<"Downloading", "TryNext">>, <<"Downloading", "MetadataProbe">>,
      <<"Downloading", "AllExhausted">>,
      <<"TryNext", "MetadataProbe">>, <<"TryNext", "AllExhausted">> }

PhaseStepIn(edges) ==
    \A r \in Reqs :
        LinkRequest(r) /\ Position(r)' # Position(r) => <<Phase(r), Phase(r)'>> \in edges

ProbeBeforeDownload ==
    \A r \in Reqs :
        LET me == req[r]
        IN  /\ me.pc \in {"ig_dl1", "ig_dl2"} => me.check # None /\ me.check[1].att = me.attempt
            /\ me.pc \in {"tt_dl0", "tt_dl", "yt_comb", "yt_smart", "yt_simple"} => me.catalog # None

\* The strategy's result is written once.
OneTerminal ==
    \A r \in Reqs :
        LinkRequest(r) /\ req[r].outcome # "none" => req'[r].outcome = req[r].outcome

Pending(r) == {req[r].pc} \cap SubprocessPcs

\* The step of request r starts a download invocation / the upload.
StartsDownload(r) == req'[r].pc \in DownloadPcs /\ Position(r)' # Position(r)
StartsUpload(r) == req'[r].pc = "send_video" /\ req[r].pc # "send_video"

\* The order of the steps of one request: a download invocation starts in
\* the step that ends a metadata invocation or an earlier download
\* invocation of the request; the upload starts in the step that ends the
\* probe of a file that a completed download invocation of the request left
\* in the workspace; a step of one request leaves the others where they are.
OrderedStep ==
    \A r \in Reqs :
        /\ StartsDownload(r) => req[r].pc \in ProbePcs \cup DownloadPcs
        /\ StartsDownload(r) /\ req[r].pc \in DownloadPcs => req'[r].attempt = req[r].attempt
        /\ StartsUpload(r) =>
              /\ req[r].pc = "meta" /\ req[r].outcome = "video"
              /\ req[r].video # None /\ req[r].video[1] \in req[r].files
        /\ req'[r].pc = "meta" /\ req[r].pc # "meta" => req[r].pc \in DownloadPcs
        /\ req'[r] # req[r] => \A q \in Reqs \ {r} : req'[q] = req[q]

\* C26: within one request the steps are sequential: no download invocation
\* starts before a metadata invocation of the request has ended, no upload
\* before a download invocation of the request has ended, and at most one
\* child process of a request is pending; requests interleave freely.
StepsSequential ==
    /\ \A r \in Reqs : Cardinality(Pending(r)) <= 1
    /\ [][OrderedStep /\ \A r \in Reqs : Cardinality(Pending(r)') <= 1]_vars

\* C26: the child processes of two requests are pending at the same time,
\* one request at its download invocation, the other at its metadata
\* invocation.
StepsSequentialWitness ==
    \E r, q \in Reqs :
        /\ r # q /\ req[r].pc = "ig_dl1" /\ req[q].pc = "ig_check"
        /\ req[r].check # None /\ req[q].attempt = 1

\* The descriptor of a catalog with the given format id.
Descriptor(catalog, id) == catalog[CHOOSE i \in 1..Len(catalog) : catalog[i].format_id = id]

\* The format ids of the combined tier's plan.
PlannedIds(plan) == {plan[j].fmt.format_id : j \in {k \in 1..Len(plan) : plan[k].kind = "fmt"}}

\* C27: a descriptor is treated as a combined format exactly when both a
\* video and an audio codec are present ('none', a missing key and null all
\* mean absent): Strategy B selects only such a descriptor and Strategy C's
\* combined tier holds exactly those.
CombinedIffBothCodecs ==
    \A r \in Reqs :
        LET me == req[r]
        IN  /\ me.platform = "tt" /\ me.pc \in {"tt_dl0", "tt_dl"} /\ me.catalog # None =>
                IsCombinedFormat(Descriptor(me.catalog[1], me.chosen[1]))
            /\ me.platform = "yt" /\ me.pc \in {"yt_comb", "yt_smart", "yt_simple"}
                    /\ me.catalog # None /\ RaiseStep \notin {me.plan[j] : j \in 1..Len(me.plan)} =>
                \A i \in 1..Len(me.catalog[1]) :
                    me.catalog[1][i].format_id \in PlannedIds(me.plan)
                        <=> IsCombinedFormat(me.catalog[1][i])

\* The ffprobe call that has just ended failed: it timed out or printed an
\* error instead of a stream entry.
ProbeFailed == last_run.raised # "none" \/ last_run.stderr = "ffprobe: Invalid data"

\* C28: a failure of the metadata probe after the download never blocks the
\* delivery: the step that ends get_video_metadata always goes on to
\* send_video with the downloaded file, without dimensions and duration when
\* the probe failed.
ProbeNeverBlocks ==
    [][\A r \in Reqs :
          req[r].pc = "meta" /\ req'[r] # req[r] =>
              /\ req'[r].pc = "send_video"
              /\ req'[r].video = req[r].video /\ req'[r].video[1] \in req'[r].files
              /\ ProbeFailed' => req'[r].dims = None]_vars

\* C28: send_video is awaited with the file although ffprobe timed out.
ProbeNeverBlocksWitness ==
    \E r \in Reqs :
        /\ req[r].pc = "send_video" /\ req[r].dims = None
        /\ last_run.raised # "none"
        /\ req[r].video # None /\ req[r].video[1] \in req[r].files

\* C29: Strategy C makes at most three catalog invocations, none after one
\* whose output was read as a catalog, and returns failure without a
\* download invocation exactly after the third one has failed or returned
\* nothing.
CatalogRetries ==
    \A r \in Reqs :
        LET me == req[r]
        IN  me.platform = "yt" =>
            /\ me.info_attempt <= 3
            /\ me.pc = "yt_info" =>
                  me.info_attempt >= 1 /\ me.catalog = None /\ me.invoked = <<>>
            /\ me.pc = "edit_fail" /\ me.catalog = None =>
                  me.info_attempt = 3 /\ me.invoked = <<>> /\ me.files = {}
            /\ me.pc \in {"yt_comb", "yt_smart", "yt_simple"} => me.catalog # None

\* C29: the third catalog invocation failed too and the strategy returned
\* None with no download invocation made.
CatalogRetriesWitness ==
    \E r \in Reqs :
        /\ req[r].platform = "yt" /\ req[r].pc = "edit_fail"
        /\ req[r].info_attempt = 3 /\ req[r].catalog = None
        /\ req[r].invoked = <<>> /\ req[r].outcome = "failed"

\* temp_folder: the platform tag and the chat and message ids of the update
\* (every message of a chat has its own id).
WorkspaceTag(platform) ==
    IF platform = "ig" THEN "insta" ELSE IF platform = "tt" THEN "tiktok"
    ELSE IF platform = "yt" THEN "youtube" ELSE "mp3"
WorkspacePath(r) == <<WorkspaceTag(req[r].platform), "chat", r>>

\* The handler of request r has made its workspace and has not ended.
Active(r) == req[r].pc \notin {"idle", "done", "ig_send", "tt_send", "yt_send", "mp3_send",
                               "mp3_reply", "mp3_admin"}

\* The step in which the handler of request r runs os.makedirs(temp_folder).
MakesWorkspace(r) ==
    /\ req[r].pc \in {"ig_send", "tt_send", "yt_send", "mp3_send"}
    /\ req'[r].pc # req[r].pc /\ req'[r].ws

\* C30: the workspace path is a function of platform tag, chat id and
\* message id, no two requests active at the same time have the same
\* workspace, and the workspace is created fresh when the request starts: it
\* is empty and no directory was at its path before.
FreshWorkspace ==
    [][/\ \A r, q \in Reqs :
            r # q /\ Active(r) /\ Active(q) => WorkspacePath(r) # WorkspacePath(q)
       /\ \A r \in Reqs : MakesWorkspace(r) => ~req[r].ws /\ req'[r].files = {}]_vars

FlagPos(command) == CHOOSE i \in 1..Len(command) : command[i] = "-f"

\* C32: the plan B invocation of Strategy A is the first invocation with the
\* argument after -f replaced by 'best': the -f flag and every other
\* argument are those of the first invocation.
PlanBSelector ==
    \A r \in Reqs :
        req[r].pc = "ig_dl2" =>
            LET first == IGDownloadCommand
                sel == FlagPos(first) + 1
            IN  /\ Len(req[r].cmd) = Len(first)
                /\ req[r].cmd[sel] = "best"
                /\ \A i \in 1..Len(first) : i # sel => req[r].cmd[i] = first[i]

\* The combined formats of the plan that had a download invocation.
CombinedIdsInvoked(r) ==
    {req[r].invoked[j].what : j \in {k \in 1..Len(req[r].invoked) : req[r].invoked[k].tier = "combined"}}

YTDownloadPcs == {"yt_comb", "yt_smart", "yt_simple"}

\* The step of request r ends a download invocation of the combined tier
\* whose files were checked: the call returned and its stderr had no
\* HTTP 403.
ChecksFiles(r) ==
    /\ req[r].platform = "yt" /\ req[r].pc = "yt_comb" /\ req'[r] # req[r]
    /\ last_run'.raised = "none"
    /\ last_run'.stderr # "ERROR: HTTP Error 403"

\* Declared sizes: no format declared larger than the ceiling is invoked,
\* and once the combined tier is over every format of unknown size was.
DeclaredSizeRespected ==
    \A r \in Reqs :
        LET me == req[r]
            fmts == {me.plan[j].fmt : j \in {k \in 1..Len(me.plan) : me.plan[k].kind = "fmt"}}
        IN  me.platform = "yt" /\ me.pc \in YTDownloadPcs =>
            /\ \A f \in fmts :
                  f.format_id \in CombinedIdsInvoked(r) =>
                      ~(nTruthy(f.filesize) /\ f.filesize.v > TELEGRAM_SIZE_LIMIT)
            /\ me.pc \in {"yt_smart", "yt_simple"} /\ RaiseStep \notin {me.plan[j] : j \in 1..Len(me.plan)} =>
                  \A f \in fmts : ~nTruthy(f.filesize) => f.format_id \in CombinedIdsInvoked(r)

\* C33: in Strategy C a format declared larger than the ceiling is never
\* downloaded and one of unknown size is; a downloaded file found larger than
\* the ceiling is gone from the workspace when the next candidate is
\* attempted; the file the strategy returns is never larger than the ceiling.
CeilingInStrategyC ==
    [][/\ DeclaredSizeRespected /\ DeclaredSizeRespected'
       /\ \A r \in Reqs :
            /\ req'[r].platform = "yt" /\ req'[r].video # None =>
                  req'[r].video[1].size <= TELEGRAM_SIZE_LIMIT
            /\ ChecksFiles(r) /\ req'[r].outcome # "video" =>
                  \A f \in req'[r].files : f.size > TELEGRAM_SIZE_LIMIT => f \in req[r].files]_vars

\* The position of a tier in Strategy C.
TierRank(tier) == CASE tier = "combined" -> 1 [] tier = "smart" -> 2 [] tier = "simple" -> 3

\* The automatic selectors that join a video stream and an audio stream
\* with '+': the first four of the list.
JoiningSelectors == 1..4

\* The formats of the plan that the combined tier does not skip.
Eligible(r) ==
    {req[r].plan[j].fmt.format_id :
        j \in {k \in 1..Len(req[r].plan) :
                 /\ req[r].plan[k].kind = "fmt"
                 /\ ~(nTruthy(req[r].plan[k].fmt.filesize)
                      /\ req[r].plan[k].fmt.filesize.v > TELEGRAM_SIZE_LIMIT)}}

\* C34: the automatic selectors are attempted only after the combined tier
\* gave no accepted file, in the listed order of the six; the two last-resort
\* selectors, best then worst, only after the six gave none; an invocation
\* has the merge option exactly when its selector joins a video and an audio
\* stream.
TiersInOrder ==
    \A r \in Reqs :
        LET inv == req[r].invoked
        IN  req[r].platform = "yt" =>
            /\ \A j \in 1..Len(inv) :
                /\ inv[j].merge <=> (inv[j].tier = "smart" /\ inv[j].what \in JoiningSelectors)
                /\ j > 1 => TierRank(inv[j - 1].tier) <= TierRank(inv[j].tier)
                /\ inv[j].tier = "smart" =>
                     /\ inv[j].what \in 1..6
                     /\ IF inv[j].what = 1
                        THEN j > 1 => inv[j - 1].tier = "combined"
                        ELSE j > 1 /\ inv[j - 1] = [inv[j] EXCEPT !.what = @ - 1, !.merge = inv[j - 1].merge]
                /\ inv[j].tier = "simple" =>
                     /\ inv[j].what \in 1..2
                     /\ j > 1
                     /\ IF inv[j].what = 1
                        THEN inv[j - 1].tier = "smart" /\ inv[j - 1].what = 6
                        ELSE inv[j - 1].tier = "simple" /\ inv[j - 1].what = 1
            /\ req[r].pc \in {"yt_smart", "yt_simple"} =>
                 /\ req[r].video = None /\ req[r].outcome = "none"
                 /\ Eligible(r) = CombinedIdsInvoked(r)
            /\ Len(SmartSelectors) = 6
            /\ SimpleSelectors = << << <<"best">> >>, << <<"worst">> >> >>

\* C34: the last of the last-resort selectors is being downloaded after a
\* combined format and all six automatic selectors.
TiersInOrderWitness ==
    \E r \in Reqs :
        /\ req[r].platform = "yt" /\ req[r].pc = "yt_simple" /\ req[r].tier_i = 2
        /\ Len(req[r].invoked) >= 9
        /\ req[r].invoked[1].tier = "combined"
        /\ \E j \in 1..Len(req[r].invoked) : req[r].invoked[j].merge

\* Request r is inside Strategy C: a catalog or a download invocation is
\* pending.
InStrategyC(r) == req[r].platform = "yt" /\ req[r].pc \in {"yt_info"} \cup YTDownloadPcs

\* C35: Strategy C always ends with a file path or with None and never
\* raises, whatever the catalog (null or missing resolution, bitrate or size
\* included) and whatever the outcome of a download invocation: each only
\* moves on to the next candidate or tier.
StrategyCNeverRaises ==
    [][\A r \in Reqs :
          InStrategyC(r) /\ req'[r] # req[r] =>
              /\ req'[r].exc.kind = "None"
              /\ \/ InStrategyC(r)'
                 \/ req'[r].outcome = "video" /\ req'[r].video # None
                 \/ req'[r].outcome = "failed" /\ req'[r].video = None]_vars

\* C36: at the start of every download invocation of Strategy C the
\* workspace holds no final_video.* file of an earlier attempt of the request
\* (one that timed out, raised or met HTTP 403 included), so that a file
\* found by the success check was written by the invocation just before it.
NoStaleArtifact ==
    \A r \in Reqs :
        req[r].platform = "yt" /\ req[r].pc \in YTDownloadPcs => req[r].files = {}

StatedCeiling(r) ==
    CASE req[r].platform = "ig" -> 3 * PoolSize(r)
      [] req[r].platform = "tt" -> 1 + 2 * PoolSize(r)
      [] req[r].platform = "yt" ->
            IF req[r].catalog = None THEN 3
            ELSE 3 + Cardinality({i \in DOMAIN req[r].catalog[1] :
                                     YTIsCombined(req[r].catalog[1][i])}) + 8
      [] OTHER -> 0

\* Every extraction invocation that ends is within the stated ceiling.
WithinStatedCeiling ==
    [][\A r \in Reqs :
          req'[r].runs > req[r].runs =>
              req'[r].runs = req[r].runs + 1 /\ req'[r].runs <= StatedCeiling(r)']_vars

\* The ceiling the strategies keep: Strategy B without bundles still makes
\* its catalog and its download invocation.
KeptCeiling(r) ==
    IF req[r].platform = "tt" /\ PoolSize(r) = 0 THEN 2 ELSE StatedCeiling(r)

\* The awaited calls of the handlers in the order of their code, between
\* two extraction invocations.
PcOrder ==
    << {"idle"},
       {"ig_send", "tt_send", "yt_send", "mp3_send", "mp3_reply"},
       {"ig_edit0", "mp3_edit0"},
       {"rot_admin"},
       {"ig_check", "ig_dl1", "ig_dl2", "tt_list0", "tt_dl0", "tt_list", "tt_dl",
        "yt_info", "yt_comb", "yt_smart", "yt_simple", "mp3_dl"},
       {"ig_edit_big", "ig_edit_photo", "tt_edit_notice", "meta", "mp3_meta"},
       {"send_video", "mp3_edit_send"},
       {"mp3_send_audio"},
       {"del_trigger", "mp3_del_trigger"},
       {"edit_fail", "mp3_edit_fail"},
       {"exc_edit", "mp3_exc_edit"},
       {"fin_del", "mp3_fin_del"},
       {"h_admin", "mp3_admin"},
       {"done"} >>

PcRank ==
    [pc \in UNION {PcOrder[i] : i \in 1..Len(PcOrder)} |->
        CHOOSE i \in 1..Len(PcOrder) : pc \in PcOrder[i]]

\* How far the handler of request r is; a message not yet dispatched comes
\* first.
Rank(r) == IF req[r].platform = "msg" THEN 0 ELSE PcRank[req[r].pc]

\* C38: every request terminates: a step of a handler either ends one more
\* extraction invocation, within the ceiling of 3 * N for Strategy A,
\* 1 + 2 * N for Strategy B (2 when N = 0) and 3 + the number of combined
\* formats + 8 for Strategy C, or takes the handler further towards its end
\* without an invocation; no retry loop repeats without bound.
TerminatesWithinCeiling ==
    [][\A r \in Reqs :
          req'[r] # req[r] =>
              \/ /\ req'[r].runs = req[r].runs + 1
                 /\ req'[r].runs <= KeptCeiling(r)'
                 /\ Rank(r) = 5 /\ Rank(r)' >= 4
              \/ /\ req'[r].runs = IF req'[r].pc = "done" THEN 0 ELSE req[r].runs
                 /\ Rank(r)' > Rank(r)]_vars

\* C38: a Strategy B request with one bundle is at its third extraction
\* invocation, the download with the bundle.
TerminatesWithinCeilingWitness ==
    \E r \in Reqs :
        /\ req[r].platform = "tt" /\ PoolSize(r) = 1 /\ req[r].runs = 2
        /\ req[r].attempt = 1 /\ req[r].pc \notin {"done", "idle"}
        /\ 1 + 2 * PoolSize(r) = 3

\* What a handler can act on besides its own request record: the rotation
\* pointers, the handler context, and the record of the subprocess calls.
Surroundings ==
    <<cookie_cycle, current_cookie_file, ncalls, current_bot_context, last_run, last_ytdlp_stderr>>

\* C39: a message from a chat outside the allow-list never causes a
\* subprocess invocation, a workspace, an advance of a rotation pointer or an
\* outbound chat action, for link messages, /start and /downloadmp3: the only
\* step of its handler is the one that returns.
OutsideChatIgnored ==
    [][\A r \in Reqs :
          ~req[r].allowed /\ req'[r] # req[r] =>
              /\ req[r].pc = "idle"
              /\ req'[r] = [req[r] EXCEPT !.pc = "done", !.platform = req'[r].platform]
              /\ ~req'[r].ws /\ req'[r].runs = 0 /\ req'[r].shown = "none" /\ ~req'[r].sent
              /\ req'[r].reports = <<>>
              /\ UNCHANGED Surroundings]_vars

\* C39: a /downloadmp3 command from a chat outside the allow-list was handled
\* and dropped.
OutsideChatIgnoredWitness ==
    \E r \in Reqs :
        /\ ~req[r].allowed /\ req[r].platform = "mp3" /\ req[r].pc = "done"
        /\ ~req[r].ws /\ req[r].shown = "none" /\ last_run = NoRun

\* C40: every exception raised while a /downloadmp3 request is processed
\* after its workspace was made (the download, the metadata, the upload or
\* the deletion of the trigger message failing) is reported to the admin by
\* downloadmp3_command; a command with no URL or with an unsupported URL is
\* answered with a notice, without a workspace and without a subprocess.
MP3FailuresReported ==
    \A r \in Reqs :
        req[r].platform = "mp3" /\ req[r].pc = "done" =>
            /\ req[r].shown = "unexpected" => ReportsBy(r, "mp3_command") # {}
            /\ req[r].outcome \in {"no_url", "unsupported"} =>
                  /\ last_run = NoRun /\ ~req[r].sent
                  /\ req[r].shown = req[r].outcome \/ ReportsBy(r, "mp3_command") # {}

MP3Step(r) ==
    \/ MP3Start(r) \/ MP3ReplyDone(r) \/ MP3SendDone(r) \/ MP3Edit0Done(r)
    \/ MP3DownloadDone(r) \/ MP3EditFailDone(r) \/ MP3MetaDone(r)
    \/ MP3EditSendDone(r) \/ MP3SendAudioDone(r) \/ MP3DelTriggerDone(r)
    \/ MP3ExcEditDone(r) \/ MP3FinDelDone(r) \/ MP3AdminDone(r)

\* One request of any kind, every result possible; the pool of the request's
\* platform is the one that holds bundles.
InitMP3 == InitWith("all", Solo({Command}), {{}}, {{}}, BOOLEAN)
\* One Instagram message; the directory of its workspace path may be on disk
\* already, empty or with an .mp4 file in it.
Leftovers == {None, Some({}), Some({[ext |-> "mp4", size |-> 10]})}
InitWs == InitOn("all", Solo({Message(<<IGReel>>)}), SUBSET FileIds, {{}}, BOOLEAN, Leftovers)
NextWs == \E r \in Reqs : HandleMessage(r) \/ IGStep(r) \/ RotAdminDone(r) \/ TailStep(r)
SpecWs == InitWs /\ [][NextWs]_vars
\* One Instagram or TikTok message or one /downloadmp3 command in the world
\* "kill", where the child of a timed-out call may be gone at kill time.
InitKill ==
    InitWith("kill", Solo({Message(<<IGReel>>), Message(<<TTVideo>>), Command}),
             {FileIds}, {FileIds}, {TRUE})
NextKill ==
    \E r \in Reqs :
        \/ HandleMessage(r)
        \/ IGStep(r) \/ TTStep(r) \/ MP3Step(r) \/ RotAdminDone(r) \/ TailStep(r)
SpecKill == InitKill /\ [][NextKill]_vars

\* One update of any handler, from a chat of the allow-list or from another
\* chat, in the world "kill".
StartUpdate == [kind |-> "start", text |-> None, allowed |-> TRUE]
AnyChat(updates) == {[u EXCEPT !.allowed = a] : u \in updates, a \in BOOLEAN}
InitGate ==
    InitWith("kill", Solo(AnyChat({Message(<<IGReel>>), Message(<<TTVideo>>), Command, StartUpdate})
                          \cup {[Message(<<YTShorts>>) EXCEPT !.allowed = FALSE]}),
             {FileIds}, {FileIds}, {TRUE})
NextGate ==
    \E r \in Reqs :
        \/ HandleMessage(r) \/ StartCommand(r) \/ StartReplyDone(r)
        \/ IGStep(r) \/ TTStep(r) \/ MP3Step(r) \/ RotAdminDone(r) \/ TailStep(r)
SpecGate == InitGate /\ [][NextGate]_vars

Init == InitIG1 \/ InitTT1 \/ InitYT1 \/ InitMP3
Next ==
    \E r \in Reqs :
        \/ HandleMessage(r)
        \/ IGStep(r) \/ TTStep(r) \/ YTStep(r) \/ MP3Step(r)
        \/ RotAdminDone(r) \/ TailStep(r)
Spec == Init /\ [][Next]_vars
=============================================================================
